---- MODULE Spec2Model ----
(***************************************************************************)
(* A model of the emscripten compiler driver (emcc.py 1.37.19), its system *)
(* library resolver (tools/system_libs.py 1.38.31) and the ports cache,    *)
(* and of the Switchboard listener client (listener_client.py).            *)
(*                                                                         *)
(* The module holds several state machines over disjoint groups of         *)
(* variables; each specification drives one group and leaves the others    *)
(* at their idle values:                                                   *)
(*   Spec       emcc.py run(): one build, from the compile loop to exit    *)
(*   SpecArgs   emcc.py run(): the command line, up to the parsed options   *)
(*   SpecEmit   emcc.py run(): memory initializer and final emitting        *)
(*   SpecFlush  JSOptimizer: the pass queue and flush                      *)
(*   SpecJsOpts emcc.py run(): the js opts block and emterpretify           *)
(*   SpecPorts  Ports.fetch_project run by two concurrent invocations      *)
(*   SpecCalc   system_libs.calculate: one resolution per behaviour        *)
(*   SpecCache  system_libs.calculate run repeatedly on one cache          *)
(*   SpecCalcAll  system_libs.calculate for every settings combination     *)
(*   SpecArgsFair  SpecArgs, with the driver always taking its next step   *)
(*   SpecLink   emcc.py run(): the inputs and linker flags up to the link  *)
(*   SpecLinkOpts  emcc.py run(): the link-time optimizations              *)
(*   SpecObjects  emcc.py run(): compiling to objects, without linking     *)
(*   SpecMemory emcc.py run(): the checks of the memory settings           *)
(*   SpecClient ListenerClient: a caller and the connection thread         *)
(***************************************************************************)
EXTENDS Integers, Sequences, FiniteSets, TLC

VARIABLES
  \* ---- JSOptimizer (emcc.py 170-276) ----
  queue,          \* self.queue: sequence of pass names
  extra_info,     \* self.extra_info: the set of keys of the side table
  queue_history,  \* self.queue_history
  final,          \* the current artifact: the optimizer invocations applied to it
  jsopt,          \* the settings the optimizer reads, and whether flush raised
  \* ---- Ports.fetch_project (system_libs.py 859-978) ----
  ppc,            \* position of each driver invocation inside fetch_project
  plocal,         \* whether EMCC_LOCAL_PORTS names the port for that invocation
  punpacked,      \* State.unpacked of that invocation
  lock,           \* holder of the cache lock, 0 when free
  archive,        \* the downloaded archive (fullpath): absent, good or stale tag
  portdir,        \* the unpacked port (fullname): absent, good, stale or local
  built,          \* whether the port's build is in the cache
  \* ---- system_libs.calculate (system_libs.py 79-795) ----
  csettings,      \* shared.Settings as calculate reads them
  cenv,           \* the environment and arguments of calculate
  calc,           \* the locals of calculate, the cache and the position in it
  \* ---- emcc.py run() (emcc.py 278-1816) ----
  bopt,           \* the command line and settings of the build
  build,          \* the position in run(), the file system and what was spawned
  \* ---- emcc.py run(), the command line (emcc.py 282-884, 1819-2081) ----
  rsp,            \* the response files on disk: the tokens of each, or "missing"
  args,           \* sys.argv and what run() derived from it so far
  \* ---- emcc.py run(), the emitted files (emcc.py 1597-1634, 1757-1803) ----
  eopt,           \* the options and settings the emitting stages read
  emit,           \* the position, the output files and the harness script
  \* ---- ListenerClient (listener_client.py 11-255) ----
  client          \* the fields of the client, its socket and its two threads

flushVars == <<queue, extra_info, queue_history, final, jsopt>>
portsVars == <<ppc, plocal, punpacked, lock, archive, portdir, built>>
calcVars == <<csettings, cenv, calc>>
buildVars == <<bopt, build>>
argsVars == <<rsp, args>>
emitVars == <<eopt, emit>>
clientVars == <<client>>

vars == <<flushVars, portsVars, calcVars, buildVars, argsVars, emitVars, clientVars>>

\* What the actions of one state machine leave unchanged.
notFlush == <<portsVars, calcVars, buildVars, argsVars, emitVars, clientVars>>
notPorts == <<flushVars, calcVars, buildVars, argsVars, emitVars, clientVars>>
notCalc == <<flushVars, portsVars, buildVars, argsVars, emitVars, clientVars>>
notBuild == <<flushVars, portsVars, calcVars, argsVars, emitVars, clientVars>>
notArgs == <<flushVars, portsVars, calcVars, buildVars, emitVars, clientVars>>
notEmit == <<flushVars, portsVars, calcVars, buildVars, argsVars, clientVars>>
notClient == <<flushVars, portsVars, calcVars, buildVars, argsVars, emitVars>>

\* The values of the variables of the state machines that are not running.
Idle(running) ==
  /\ IF running = "flush" THEN TRUE
     ELSE /\ queue = <<>>
          /\ extra_info = {}
          /\ queue_history = <<>>
          /\ final = <<>>
          /\ jsopt = [ASM_JS |-> 1, DEBUG2 |-> FALSE, WASM_BACKEND |-> FALSE,
                      blacklist |-> {}, source_map |-> FALSE,
                      minify_whitespace |-> FALSE, cleanup_shell |-> FALSE,
                      raised |-> FALSE]
  /\ IF running = "ports" THEN TRUE
     ELSE /\ ppc = <<"done", "done">>
          /\ plocal = <<FALSE, FALSE>>
          /\ punpacked = <<FALSE, FALSE>>
          /\ lock = 0
          /\ archive = "absent"
          /\ portdir = "absent"
          /\ built = FALSE
  /\ IF running = "calc" THEN TRUE
     ELSE /\ csettings = "idle"
          /\ cenv = "idle"
          /\ calc = [pc |-> "idle"]
  /\ IF running = "build" THEN TRUE
     ELSE /\ bopt = "idle"
          /\ build = [pc |-> "idle"]
  /\ IF running = "args" THEN TRUE
     ELSE /\ rsp = "idle"
          /\ args = [pc |-> "idle"]
  /\ IF running = "emit" THEN TRUE
     ELSE /\ eopt = "idle"
          /\ emit = [pc |-> "idle"]
  /\ IF running = "client" THEN TRUE
     ELSE client = [pc |-> "idle"]

(***************************************************************************)
(* Small helpers.                                                          *)
(***************************************************************************)
Range(s) == {s[i] : i \in 1..Len(s)}

RECURSIVE FilterSeq(_, _)
FilterSeq(s, keep) ==
  IF s = <<>> THEN <<>>
  ELSE IF Head(s) \in keep THEN <<Head(s)>> \o FilterSeq(Tail(s), keep)
       ELSE FilterSeq(Tail(s), keep)

(***************************************************************************)
(* JSOptimizer                                                             *)
(***************************************************************************)
\* Bounds of the pass-queue model.
MaxQueue == 3
MaxInvocations == 1

\* The pass names the model queues: one that runs in the native optimizer,
\* one that runs in the in-process JS optimizer, and the finalize pass.
QueuedPasses == {"eliminate", "safeHeap", "last"}
\* Every pass name run() and do_minify append to the queue.
Passes == QueuedPasses \cup
  {"eliminateDeadFuncs", "noop", "simplifyExpressions", "localCSE",
   "safeLabelSetting", "simplifyIfs", "registerize", "registerizeHarder",
   "outline", "minifyNames", "closure", "asmLastOpts"}
ExtraKeys == {"dead_functions"}

\* tools/js_optimizer.py NATIVE_PASSES (the passes used here).
NativePasses == {"asm", "asmPreciseF32", "receiveJSON", "emitJSON",
                 "eliminateDeadFuncs", "eliminate", "eliminateMemSafe",
                 "simplifyExpressions", "simplifyIfs", "optimizeFrounds",
                 "registerize", "registerizeHarder", "minifyNames",
                 "minifyWhitespace", "cleanup", "asmLastOpts", "last", "noop"}

use_native(p, source_map) == IF source_map THEN FALSE ELSE p \in NativePasses

\* The settings flush and run_passes read.  ASM_JS is 1 or 2 once run() has
\* passed "assert shared.Settings.ASM_JS > 0" (emcc.py 860, 903, 934).
JsOptSettings ==
  [ASM_JS : {1, 2}, DEBUG2 : BOOLEAN, WASM_BACKEND : BOOLEAN,
   blacklist : {{}, {"safeHeap"}}, source_map : {FALSE},
   minify_whitespace : BOOLEAN, cleanup_shell : BOOLEAN, raised : {FALSE}]

\* run_passes: one invocation of the optimizer on the current artifact.
run_passes(st, passes, just_split, just_concat) ==
  LET p1 == <<"asm">> \o passes
      p2 == IF st.opt.minify_whitespace /\ "last" \in Range(p1)
            THEN p1 \o <<"minifyWhitespace">> ELSE p1
      p3 == IF st.opt.cleanup_shell /\ "last" \in Range(p1)
            THEN p2 \o <<"cleanup">> ELSE p2
  IN [st EXCEPT !.final = Append(st.final,
        [passes |-> p3, extra_info |-> st.extra_info,
         just_split |-> just_split, just_concat |-> just_concat])]

\* The chunking loop without the two bridging passes at a change of mode.
RECURSIVE chunks_of_without_bridging(_, _, _, _)
chunks_of_without_bridging(passes, curr, chunks, sm) ==
  IF passes = <<>>
  THEN IF Len(curr) > 0 THEN Append(chunks, curr) ELSE chunks
  ELSE LET p == Head(passes) IN
       IF Len(curr) = 0 THEN chunks_of_without_bridging(Tail(passes), <<p>>, chunks, sm)
       ELSE IF use_native(p, sm) = use_native(curr[Len(curr)], sm)
            THEN chunks_of_without_bridging(Tail(passes), Append(curr, p), chunks, sm)
            ELSE chunks_of_without_bridging(Tail(passes), <<p>>,
                                            Append(chunks, curr), sm)

\* The loop of flush that cuts the queue into chunks of one execution mode.
RECURSIVE chunks_of(_, _, _, _)
chunks_of(passes, curr, chunks, sm) ==
  IF passes = <<>>
  THEN IF Len(curr) > 0 THEN Append(chunks, curr) ELSE chunks
  ELSE LET p == Head(passes) IN
       IF Len(curr) = 0 THEN chunks_of(Tail(passes), <<p>>, chunks, sm)
       ELSE IF use_native(p, sm) = use_native(curr[Len(curr)], sm)
            THEN chunks_of(Tail(passes), Append(curr, p), chunks, sm)
            ELSE chunks_of(Tail(passes), <<"receiveJSON", p>>,
                           Append(chunks, Append(curr, "emitJSON")), sm)

RECURSIVE run_chunks(_, _, _)
run_chunks(st, chunks, i) ==
  IF i > Len(chunks) THEN st
  ELSE run_chunks(run_passes(st, chunks[i],
                             "receiveJSON" \in Range(chunks[i]),
                             "emitJSON" \in Range(chunks[i])),
                  chunks, i + 1)

\* The condition under which flush runs the queue (emcc.py 197).
flush_runs(st) ==
  Len(st.queue) > 0
  /\ ~(st.opt.ASM_JS = 0 /\ Len(st.queue) = 1 /\ st.queue[1] = "last")

\* flush of a queue that is run in one go (DEBUG != '2' or fewer than 2 passes).
flush_plain(st) ==
  IF flush_runs(st)
  THEN LET chunks == chunks_of(st.queue, <<>>, <<>>, st.opt.source_map)
           ran == IF Len(chunks) = 1
                  THEN run_passes(st, chunks[1], FALSE, FALSE)
                  ELSE run_chunks(st, chunks, 1)
       IN [ran EXCEPT !.queue_history = st.queue_history \o st.queue,
                      !.queue = <<>>, !.extra_info = {}]
  ELSE [st EXCEPT !.extra_info = {}]

\* EMCC_DEBUG=2: flush runs each pass on its own, restoring extra_info.
RECURSIVE flush_each(_, _, _)
flush_each(st, passes, extra) ==
  IF passes = <<>> THEN st
  ELSE LET inner == flush_plain([st EXCEPT !.queue = <<Head(passes)>>])
       IN flush_each([inner EXCEPT !.extra_info = extra], Tail(passes), extra)

flush_noclear(st0) ==
  LET st == [st0 EXCEPT !.queue = FilterSeq(st0.queue, Passes \ st0.opt.blacklist)]
  IN IF st.opt.WASM_BACKEND THEN [st EXCEPT !.opt.raised = TRUE]
     ELSE IF flush_runs(st) /\ ~(st.opt.DEBUG2 /\ Len(st.queue) >= 2)
          THEN [flush_plain(st) EXCEPT !.queue = st.queue]
          ELSE flush_plain(st)

\* JSOptimizer.flush
flush(st0) ==
  LET st == [st0 EXCEPT !.queue = FilterSeq(st0.queue, Passes \ st0.opt.blacklist)]
  IN IF st.opt.WASM_BACKEND
     THEN [st EXCEPT !.opt.raised = TRUE]  \* the assertion fails: flush raises
     ELSE IF flush_runs(st) /\ st.opt.DEBUG2 /\ Len(st.queue) >= 2
          THEN LET each == flush_each(st, st.queue, st.extra_info)
               IN [each EXCEPT !.queue_history = each.queue_history \o each.queue,
                               !.queue = <<>>, !.extra_info = {}]
          ELSE flush_plain(st)

optimizer == [queue |-> queue, extra_info |-> extra_info,
              queue_history |-> queue_history, final |-> final, opt |-> jsopt]

InitFlush ==
  /\ queue = <<>>
  /\ extra_info = {}
  /\ queue_history = <<>>
  /\ final = <<>>
  /\ jsopt \in JsOptSettings
  /\ Idle("flush")

\* optimizer.queue += [p]
AppendPass ==
  /\ ~jsopt.raised
  /\ Len(queue) < MaxQueue
  /\ Len(final) < MaxInvocations
  /\ \E p \in QueuedPasses : queue' = Append(queue, p)
  /\ UNCHANGED <<extra_info, queue_history, final, jsopt, notFlush>>

\* optimizer.extra_info[k] = ...
SetExtraInfo ==
  /\ ~jsopt.raised
  /\ Len(final) < MaxInvocations
  /\ \E k \in ExtraKeys : k \notin extra_info /\ extra_info' = extra_info \cup {k}
  /\ UNCHANGED <<queue, queue_history, final, jsopt, notFlush>>

\* optimizer.flush()
Flush ==
  /\ ~jsopt.raised
  /\ LET st == flush(optimizer) IN
       /\ queue' = st.queue
       /\ extra_info' = st.extra_info
       /\ queue_history' = st.queue_history
       /\ final' = st.final
       /\ jsopt' = st.opt
  /\ UNCHANGED notFlush

NextFlush == AppendPass \/ SetExtraInfo \/ Flush

SpecFlush == InitFlush /\ [][NextFlush]_vars

(***************************************************************************)
(* C10: after every call of flush that returns, the pass queue is empty    *)
(* and the extra-info table is empty; flush of an empty queue runs no      *)
(* optimizer invocation and leaves the artifact unchanged; a second flush  *)
(* with no append in between changes nothing.                              *)
(***************************************************************************)
C10_FlushIdempotent ==
  ~jsopt.WASM_BACKEND =>
    LET once == flush(optimizer)
        twice == flush(once)
    IN /\ once.queue = <<>>
       /\ once.extra_info = {}
       /\ twice = once
       /\ (queue = <<>> => once.final = final /\ once.queue_history = queue_history)

\* flush has run a non-empty queue and left it empty.
C10_Witness ==
  /\ queue = <<>> /\ extra_info = {}
  /\ Len(queue_history) >= 2
  /\ final # <<>>

(***************************************************************************)
(* The js opts block of run() and emterpretify: what one build appends to *)
(* the pass queue and when it flushes.  The artifact is the list of the   *)
(* optimizer invocations, as in SpecFlush.                                *)
(***************************************************************************)

\* The options and settings the js opts block reads, as settings resolution
\* leaves them (emcc.py 659, 860, 915-923, 932-934, 1021-1036, 1106-1132).
\* ALLOW_MEMORY_GROWTH, AGGRESSIVE_VARIABLE_ELIMINATION, PRECISE_F32,
\* SPLIT_MEMORY and EMTERPRETIFY_ADVISE are off; --profiling sets the debug
\* level to 2 at least;
\* EVAL_CTORS stands for EVAL_CTORS with a memory init file.
JsOptsBuilds ==
  {o \in [opt_level : 0..3, debug_level : 0..3, js_opts : BOOLEAN,
          use_closure_compiler : 0..2, DEBUG2 : BOOLEAN,
          DEAD_FUNCTIONS : BOOLEAN, SAFE_HEAP : BOOLEAN,
          EMTERPRETIFY : BOOLEAN, SWAPPABLE_ASM_MODULE : BOOLEAN,
          BINARYEN : BOOLEAN, FINALIZE_ASM_JS : BOOLEAN,
          ELIMINATE_DUPLICATE_FUNCTIONS : BOOLEAN, EVAL_CTORS : BOOLEAN,
          SIMPLIFY_IFS : BOOLEAN, OUTLINING_LIMIT : {0, 100}, profiling : BOOLEAN,
          ASM_JS : {1, 2}, WASM_BACKEND : {FALSE}, blacklist : {{}},
          source_map : {FALSE}, minify_whitespace : {FALSE},
          cleanup_shell : {FALSE}, raised : {FALSE},
          pc : {"js_opts"}, original_from : {0}] :
     /\ (o.SAFE_HEAP \/ o.DEAD_FUNCTIONS \/ o.EMTERPRETIFY \/ o.OUTLINING_LIMIT # 0)
          => o.js_opts
     /\ o.profiling => o.debug_level >= 2
     /\ o.EMTERPRETIFY => ~o.SIMPLIFY_IFS
     /\ o.debug_level > 1 => o.use_closure_compiler = 0
     /\ o.EMTERPRETIFY => (~o.FINALIZE_ASM_JS /\ o.use_closure_compiler # 2)
     /\ o.BINARYEN => (o.use_closure_compiler # 2 /\ ~o.ELIMINATE_DUPLICATE_FUNCTIONS)
     /\ o.ASM_JS = (IF o.opt_level > 0 /\ ~o.BINARYEN /\ o.use_closure_compiler # 2
                    THEN 1 ELSE 2)}

InitJsOpts ==
  /\ queue = <<>>
  /\ extra_info = {}
  /\ queue_history = <<>>
  /\ final = <<>>
  /\ jsopt \in JsOptsBuilds
  /\ Idle("flush")

\* do_minify with its passes put in front of the queue.
do_minify_in_front(st) ==
  LET o == st.opt
  IN [st EXCEPT
        !.queue = (IF o.opt_level >= 2 /\ o.debug_level < 2 /\ o.use_closure_compiler # 2
                   THEN <<"minifyNames">> ELSE <<>>)
                  \o (IF o.use_closure_compiler = 1 THEN <<"closure">> ELSE <<>>)
                  \o @,
        !.opt.minify_whitespace = @ \/ (o.opt_level >= 2 /\ o.debug_level = 0),
        !.opt.cleanup_shell = @ \/ (o.use_closure_compiler = 0 /\ o.debug_level <= 2
                                     /\ o.FINALIZE_ASM_JS)]

\* JSOptimizer.do_minify
do_minify(st) ==
  LET o == st.opt
  IN [st EXCEPT
        !.queue = @
                  \o (IF o.opt_level >= 2 /\ o.debug_level < 2 /\ o.use_closure_compiler # 2
                      THEN <<"minifyNames">> ELSE <<>>)
                  \o (IF o.use_closure_compiler = 1 THEN <<"closure">> ELSE <<>>),
        !.opt.minify_whitespace = @ \/ (o.opt_level >= 2 /\ o.debug_level = 0),
        !.opt.cleanup_shell = @ \/ (o.use_closure_compiler = 0 /\ o.debug_level <= 2
                                     /\ o.FINALIZE_ASM_JS)]

\* The test that guards the simplifyIfs pass, without the outlining limit.
simplify_ifs_when_outlining(o) ==
  LET debugging == o.debug_level = 0 \/ o.profiling
  IN o.SIMPLIFY_IFS /\ debugging /\ ~o.BINARYEN

\* The test that guards the simplifyIfs pass at optimization level 2 and above.
simplify_ifs(o) ==
  LET debugging == o.debug_level = 0 \/ o.profiling
  IN o.SIMPLIFY_IFS /\ debugging /\ o.OUTLINING_LIMIT = 0 /\ ~o.BINARYEN

\* The js opts block of run(): the passes it queues and its flushes.
JsOptsPasses ==
  /\ jsopt.pc = "js_opts"
  /\ LET o == jsopt
         add(st, c, ps) == IF c THEN [st EXCEPT !.queue = @ \o ps] ELSE st
         opts == o.opt_level >= 1 /\ o.js_opts
         s1 == [add(optimizer, o.DEAD_FUNCTIONS, <<"eliminateDeadFuncs">>)
                  EXCEPT !.extra_info = IF o.DEAD_FUNCTIONS
                                        THEN @ \cup {"dead_functions"} ELSE @]
         s2 == add(s1, opts /\ o.DEBUG2, <<"noop">>)
         s3 == add(s2, opts /\ o.opt_level >= 2, <<"eliminate", "simplifyExpressions">>)
         s4 == add(s3, opts /\ o.opt_level >= 2 /\ o.EMTERPRETIFY, <<"localCSE">>)
         s5 == add(s4, o.EMTERPRETIFY, <<"safeLabelSetting">>)
         s6 == add(s5, opts /\ o.opt_level >= 2 /\ simplify_ifs(o), <<"simplifyIfs">>)
         s7a == add(s6, o.js_opts /\ o.SAFE_HEAP, <<"safeHeap">>)
         s7 == [add(s7a, o.js_opts /\ o.OUTLINING_LIMIT > 0, <<"outline">>)
                  EXCEPT !.extra_info = IF o.js_opts /\ o.OUTLINING_LIMIT > 0
                                        THEN @ \cup {"sizeToOutline"} ELSE @]
         s8 == add(s7, o.js_opts /\ o.opt_level >= 2 /\ o.debug_level < 3,
                   IF o.opt_level >= 3 THEN <<"registerizeHarder">>
                                       ELSE <<"registerize">>)
         s9 == IF o.js_opts /\ o.ELIMINATE_DUPLICATE_FUNCTIONS /\ o.opt_level >= 2
               THEN flush(s8) ELSE s8
         s10 == IF o.EVAL_CTORS /\ ~o.BINARYEN THEN flush(s9) ELSE s9
         s11 == IF o.js_opts /\ ~o.EMTERPRETIFY /\ ~o.BINARYEN
                THEN do_minify(s10) ELSE s10
         s12 == add(s11, o.js_opts /\ o.opt_level >= 2, <<"asmLastOpts">>)
         s13 == add(s12, o.js_opts /\ o.FINALIZE_ASM_JS, <<"last">>)
         s14 == IF o.js_opts THEN flush(s13) ELSE s13
         s15 == IF o.use_closure_compiler = 2 THEN flush(s14) ELSE s14
     IN /\ queue' = s15.queue
        /\ extra_info' = s15.extra_info
        /\ queue_history' = s15.queue_history
        /\ final' = s15.final
        /\ jsopt' = [s15.opt EXCEPT !.pc = "final_emitting"]
  /\ UNCHANGED notFlush

\* emterpretify(js_target, optimizer, options), called when EMTERPRETIFY is
\* set.  original_from is the number of invocations run before
\* "final = original": the later ones run on the saved original.
Emterpretify ==
  /\ jsopt.pc = "final_emitting"
  /\ jsopt.EMTERPRETIFY
  /\ LET finalize(st) ==
           LET m == IF st.opt.BINARYEN THEN st ELSE do_minify(st)
           IN flush([m EXCEPT !.queue = @ \o <<"last">>])
         s1 == flush(optimizer)
         s2 == finalize([s1 EXCEPT !.opt.FINALIZE_ASM_JS = TRUE])
         s3 == IF s2.opt.SWAPPABLE_ASM_MODULE
               THEN finalize([s2 EXCEPT !.opt.original_from = Len(s2.final)])
               ELSE s2
     IN /\ queue' = s3.queue
        /\ extra_info' = s3.extra_info
        /\ queue_history' = s3.queue_history
        /\ final' = s3.final
        /\ jsopt' = [s3.opt EXCEPT !.pc = "done"]
  /\ UNCHANGED notFlush

\* do_binaryen(..., optimizer), called when BINARYEN is set: of its steps the
\* one on the optimizer, "optimizer.do_minify() # calculate how to minify".
JsOptsBinaryen ==
  /\ \/ jsopt.pc = "final_emitting" /\ ~jsopt.EMTERPRETIFY
     \/ jsopt.pc = "done"
  /\ jsopt.BINARYEN
  /\ LET st == IF jsopt.opt_level >= 2 THEN do_minify(optimizer) ELSE optimizer
     IN /\ queue' = st.queue
        /\ jsopt' = [st.opt EXCEPT !.pc = "binaryen_done"]
  /\ UNCHANGED <<extra_info, queue_history, final, notFlush>>

\* "The JS is now final. Move it to its final location"
MoveFinal ==
  /\ \/ jsopt.pc = "final_emitting" /\ ~jsopt.EMTERPRETIFY /\ ~jsopt.BINARYEN
     \/ jsopt.pc = "done" /\ ~jsopt.BINARYEN
     \/ jsopt.pc = "binaryen_done"
  /\ jsopt' = [jsopt EXCEPT !.pc = "moved"]
  /\ UNCHANGED <<queue, extra_info, queue_history, final, notFlush>>

NextJsOpts == JsOptsPasses \/ Emterpretify \/ JsOptsBinaryen \/ MoveFinal

SpecJsOpts == InitJsOpts /\ [][NextJsOpts]_vars

(***************************************************************************)
(* Ports.fetch_project, run by two concurrent driver invocations for the  *)
(* same port.  Each file-system operation is one step.                    *)
(***************************************************************************)
Procs == {1, 2}

\* The positions at which fetch_project changes the shared ports state.
MutatingPcs == {"local_delete", "local_copy", "local_clear",
                "check_archive", "check_dir", "delete_stale", "refetch", "clear"}

InitPorts ==
  /\ ppc = <<"start", "start">>
  /\ plocal \in [Procs -> BOOLEAN]
  /\ punpacked = <<FALSE, FALSE>>
  /\ lock = 0
  /\ archive \in {"absent", "good", "stale"}
  /\ portdir \in {"absent", "good", "stale"}
  /\ built \in BOOLEAN
  /\ Idle("ports")

\* if local_ports: ... for local in local_ports: if name == local[0]
PortStart(p) ==
  /\ ppc[p] = "start"
  /\ ppc' = [ppc EXCEPT ![p] = IF plocal[p] THEN "local_delete" ELSE "acquire"]
  /\ UNCHANGED <<plocal, punpacked, lock, archive, portdir, built, notPorts>>

\* shared.try_delete(fullname)
LocalDelete(p) ==
  /\ ppc[p] = "local_delete"
  /\ portdir' = "absent"
  /\ ppc' = [ppc EXCEPT ![p] = "local_copy"]
  /\ UNCHANGED <<plocal, punpacked, lock, archive, built, notPorts>>

\* shutil.copytree(path, os.path.join(fullname, subdir)): raises when the
\* destination exists already
LocalCopy(p) ==
  /\ ppc[p] = "local_copy"
  /\ IF portdir = "absent"
     THEN portdir' = "local" /\ ppc' = [ppc EXCEPT ![p] = "local_clear"]
     ELSE portdir' = portdir /\ ppc' = [ppc EXCEPT ![p] = "raised"]
  /\ UNCHANGED <<plocal, punpacked, lock, archive, built, notPorts>>

\* Ports.clear_project_build(name); return
LocalClear(p) ==
  /\ ppc[p] = "local_clear"
  /\ built' = FALSE
  /\ ppc' = [ppc EXCEPT ![p] = "done"]
  /\ UNCHANGED <<plocal, punpacked, lock, archive, portdir, notPorts>>

\* shared.Cache.acquire_cache_lock()
AcquireLock(p) ==
  /\ ppc[p] = "acquire"
  /\ lock = 0
  /\ lock' = p
  /\ ppc' = [ppc EXCEPT ![p] = "check_archive"]
  /\ UNCHANGED <<plocal, punpacked, archive, portdir, built, notPorts>>

\* if not os.path.exists(fullpath): retrieve()    (urlopen may raise)
CheckArchive(p) ==
  /\ ppc[p] = "check_archive"
  /\ IF archive = "absent"
     THEN \/ archive' = "good" /\ ppc' = [ppc EXCEPT ![p] = "check_dir"]
          \/ archive' = archive /\ ppc' = [ppc EXCEPT ![p] = "release_raise"]
     ELSE archive' = archive /\ ppc' = [ppc EXCEPT ![p] = "check_dir"]
  /\ UNCHANGED <<plocal, punpacked, lock, portdir, built, notPorts>>

\* if not os.path.exists(fullname): unpack()
CheckDir(p) ==
  /\ ppc[p] = "check_dir"
  /\ IF portdir = "absent"
     THEN portdir' = archive /\ punpacked' = [punpacked EXCEPT ![p] = TRUE]
     ELSE UNCHANGED <<portdir, punpacked>>
  /\ ppc' = [ppc EXCEPT ![p] = "check_tag"]
  /\ UNCHANGED <<plocal, lock, archive, built, notPorts>>

\* if not check_tag(): ...
CheckTag(p) ==
  /\ ppc[p] = "check_tag"
  /\ ppc' = [ppc EXCEPT ![p] = IF archive = "stale" THEN "delete_stale" ELSE "clear"]
  /\ UNCHANGED <<plocal, punpacked, lock, archive, portdir, built, notPorts>>

\* shared.try_delete(fullname); shared.try_delete(fullpath)
DeleteStale(p) ==
  /\ ppc[p] = "delete_stale"
  /\ portdir' = "absent"
  /\ archive' = "absent"
  /\ ppc' = [ppc EXCEPT ![p] = "refetch"]
  /\ UNCHANGED <<plocal, punpacked, lock, built, notPorts>>

\* retrieve(); unpack()    (urlopen may raise)
Refetch(p) ==
  /\ ppc[p] = "refetch"
  /\ \/ /\ archive' = "good"
        /\ portdir' = "good"
        /\ punpacked' = [punpacked EXCEPT ![p] = TRUE]
        /\ ppc' = [ppc EXCEPT ![p] = "clear"]
     \/ /\ UNCHANGED <<archive, portdir, punpacked>>
        /\ ppc' = [ppc EXCEPT ![p] = "release_raise"]
  /\ UNCHANGED <<plocal, lock, built, notPorts>>

\* if State.unpacked: Ports.clear_project_build(name)
ClearBuild(p) ==
  /\ ppc[p] = "clear"
  /\ built' = IF punpacked[p] THEN FALSE ELSE built
  /\ ppc' = [ppc EXCEPT ![p] = "release"]
  /\ UNCHANGED <<plocal, punpacked, lock, archive, portdir, notPorts>>

\* finally: shared.Cache.release_cache_lock()
ReleaseLock(p) ==
  /\ ppc[p] \in {"release", "release_raise"}
  /\ lock' = 0
  /\ ppc' = [ppc EXCEPT ![p] = IF ppc[p] = "release" THEN "done" ELSE "raised"]
  /\ UNCHANGED <<plocal, punpacked, archive, portdir, built, notPorts>>

\* a later build of the port puts it into the cache (port.get)
BuildPort(p) ==
  /\ ppc[p] = "done"
  /\ ~built
  /\ built' = TRUE
  /\ UNCHANGED <<ppc, plocal, punpacked, lock, archive, portdir, notPorts>>

NextPorts ==
  \E p \in Procs :
    \/ PortStart(p) \/ LocalDelete(p) \/ LocalCopy(p) \/ LocalClear(p)
    \/ AcquireLock(p) \/ CheckArchive(p) \/ CheckDir(p) \/ CheckTag(p)
    \/ DeleteStale(p) \/ Refetch(p) \/ ClearBuild(p) \/ ReleaseLock(p)
    \/ BuildPort(p)

SpecPorts == InitPorts /\ [][NextPorts]_vars

(***************************************************************************)
(* C8: fetch_project performs every mutation of the shared ports state    *)
(* while it holds the cache lock, releases the lock on every exit path,   *)
(* and so two invocations never mutate the same port at the same time.    *)
(***************************************************************************)
C8_MutationsUnderLock ==
  /\ \A p \in Procs : ppc[p] \in MutatingPcs => lock = p
  /\ \A p \in Procs : ppc[p] \in {"done", "raised"} => lock # p
  /\ \A p, q \in Procs :
        (p # q /\ ppc[p] \in MutatingPcs) => ppc[q] \notin MutatingPcs

(***************************************************************************)
(* The system library resolver: system_libs.calculate.                    *)
(*                                                                         *)
(* A library name is the sequence of the pieces it is concatenated from,   *)
(* so <<"libgl", "-mt", "-emu">> is 'libgl-mt-emu' and "'-mt' in libname"  *)
(* is a test on the pieces.  A file name ends in the piece ".bc" or ".a".  *)
(***************************************************************************)
CalcSettings ==
  [USE_PTHREADS : BOOLEAN, WASM : BOOLEAN, WASM_BACKEND : BOOLEAN,
   WASM_OBJECT_FILES : BOOLEAN, LEGACY_GL_EMULATION : BOOLEAN,
   USE_WEBGL2 : BOOLEAN, MALLOC : {"dlmalloc", "emmalloc"},
   DEBUG_LEVEL : {0, 3}, SUPPORT_ERRNO : BOOLEAN, EMSCRIPTEN_TRACING : BOOLEAN,
   DISABLE_EXCEPTION_CATCHING : BOOLEAN, RELOCATABLE : BOOLEAN]

\* system/lib/*.symbols as read by read_symbols: the symbols each library
\* provides (one representative each; "memcpy" is in two of the files).
SymbolsFile ==
  [libc |-> {"printf", "memcpy"}, libcxx |-> {"_Znwj"},
   libcxxabi |-> {"__dynamic_cast"}, gl |-> {"glClear"},
   al |-> {"alcOpenDevice"}, compiler_rt |-> {"__muldc3"},
   libc_extras |-> {"emscripten_extra", "memcpy"},
   pthreads |-> {"pthread_create"}, asmjs_pthreads |-> {"emscripten_atomic_cas"},
   stub_pthreads |-> {"pthread_create"}, wasm_libc |-> {"sin"},
   html5 |-> {"emscripten_set_click_callback"}]

\* get_cflags(force_object_files=False)
get_cflags(s) ==
  (IF ~s.WASM_OBJECT_FILES THEN {"-s WASM_OBJECT_FILES=0"} ELSE {})
  \cup (IF s.RELOCATABLE THEN {"-s RELOCATABLE"} ELSE {})

\* malloc_decision: whether it returns (exit_with_error otherwise), and the name
malloc_decision(s) ==
  LET base == s.MALLOC
      e1 == IF s.DEBUG_LEVEL >= 3 THEN <<"_debug">> ELSE <<>>
      e2 == IF ~s.SUPPORT_ERRNO /\ base # "emmalloc" THEN <<"_noerrno">> ELSE <<>>
      e3 == IF s.USE_PTHREADS THEN <<"_threadsafe">> ELSE <<>>
      e4 == IF s.EMSCRIPTEN_TRACING THEN <<"_tracing">> ELSE <<>>
  IN [ok |-> ~((s.USE_PTHREADS \/ s.EMSCRIPTEN_TRACING) /\ base # "dlmalloc"),
      name |-> <<"lib", base>> \o e1 \o e2 \o e3 \o e4]

\* always_include with libc under its single-threaded name.
always_include_with_libc(s) ==
  (IF s.USE_PTHREADS
   THEN {<<"libpthreads">>,
         IF ~s.WASM_BACKEND THEN <<"libpthreads_asmjs">> ELSE <<"libpthreads_wasm">>}
   ELSE {<<"libpthreads_stub">>})
  \cup {malloc_decision(s).name, <<"libc">>}
  \cup (IF s.WASM_BACKEND THEN {<<"libcompiler_rt">>} ELSE {})

\* The registry: always_include and the list system_libs, for settings s.
always_include(s) ==
  (IF s.USE_PTHREADS
   THEN {<<"libpthreads">>,
         IF ~s.WASM_BACKEND THEN <<"libpthreads_asmjs">> ELSE <<"libpthreads_wasm">>}
   ELSE {<<"libpthreads_stub">>})
  \cup {malloc_decision(s).name}
  \cup (IF s.WASM_BACKEND THEN {<<"libcompiler_rt">>} ELSE {})

Library(shortname, suffix, create, symbols, deps, can_noexcept) ==
  [shortname |-> shortname, suffix |-> suffix, create |-> create,
   symbols |-> symbols, deps |-> deps, can_noexcept |-> can_noexcept]

libc_deps_on_abi(s) ==
  <<<<"libcompiler_rt">>, <<"libc++abi">>>> \o (IF s.WASM THEN <<<<"libc-wasm">>>> ELSE <<>>)

\* libc_deps (lines 633-635)
libc_deps(s) ==
  <<<<"libcompiler_rt">>>> \o (IF s.WASM THEN <<<<"libc-wasm">>>> ELSE <<>>)

system_libs(s) ==
  LET ext == IF s.WASM_OBJECT_FILES THEN "a" ELSE "bc"
      libc_name == IF s.USE_PTHREADS THEN <<"libc", "-mt">> ELSE <<"libc">>
      gl_name == <<"libgl">> \o (IF s.USE_PTHREADS THEN <<"-mt">> ELSE <<>>)
                 \o (IF s.LEGACY_GL_EMULATION THEN <<"-emu">> ELSE <<>>)
                 \o (IF s.USE_WEBGL2 THEN <<"-webgl2">> ELSE <<>>)
      F == SymbolsFile
  IN << Library(<<"libc++">>, "a", "create_libcxx", F.libcxx, <<<<"libc++abi">>>>, TRUE),
        Library(<<"libc++abi">>, ext, "create_libcxxabi", F.libcxxabi, <<libc_name>>, FALSE),
        Library(<<"libal">>, ext, "create_al", F.al, <<libc_name>>, FALSE),
        Library(<<"libhtml5">>, ext, "create_html5", F.html5, <<>>, FALSE),
        Library(<<"libcompiler_rt">>, "a", "create_compiler_rt", F.compiler_rt, <<libc_name>>, FALSE),
        Library(malloc_decision(s).name, ext, "create_malloc", {}, <<>>, FALSE),
        Library(gl_name, ext, "create_gl", F.gl, <<libc_name>>, FALSE) >>
     \o (IF s.USE_PTHREADS
         THEN << Library(<<"libpthreads">>, ext, "create_pthreads", F.pthreads, <<libc_name>>, FALSE),
                 IF ~s.WASM_BACKEND
                 THEN Library(<<"libpthreads_asmjs">>, ext, "create_pthreads_asmjs", F.asmjs_pthreads, <<libc_name>>, FALSE)
                 ELSE Library(<<"libpthreads_wasm">>, ext, "create_pthreads_wasm", {}, <<libc_name>>, FALSE) >>
         ELSE << Library(<<"libpthreads_stub">>, ext, "create_pthreads_stub", F.stub_pthreads, <<libc_name>>, FALSE) >>)
     \o << Library(libc_name, ext, "create_libc", F.libc, libc_deps(s), FALSE) >>
     \o (IF s.WASM
         THEN << Library(<<"libc-wasm">>, ext, "create_wasm_libc", F.wasm_libc, <<>>, FALSE) >>
         ELSE <<>>)
     \o << Library(<<"libc-extras">>, ext, "create_libc_extras", F.libc_extras, <<>>, FALSE) >>

\* system_libs_map = {l.shortname: l for l in system_libs}
system_libs_map(s) ==
  LET L == system_libs(s)
  IN [n \in {L[i].shortname : i \in 1..Len(L)} |->
        L[CHOOSE i \in 1..Len(L) : L[i].shortname = n /\ \A j \in (i+1)..Len(L) : L[j].shortname # n]]

\* The file name add_library memoizes a library under.
cache_name(lib, s) ==
  (IF lib.can_noexcept /\ s.DISABLE_EXCEPTION_CATCHING
   THEN lib.shortname \o <<"_noexcept">> ELSE lib.shortname)
  \o <<"." \o lib.suffix>>

\* threading_flags(libname): whether its assert passes, and the flags.
threading_flags(libname, s) ==
  IF s.USE_PTHREADS
  THEN [ok |-> "-mt" \in Range(libname), flags |-> {"-s USE_PTHREADS=1"}]
  ELSE [ok |-> "-mt" \notin Range(libname), flags |-> {}]

legacy_gl_emulation_flags(libname, s) ==
  IF s.LEGACY_GL_EMULATION
  THEN [ok |-> "-emu" \in Range(libname), flags |-> {"-DLEGACY_GL_EMULATION=1"}]
  ELSE [ok |-> "-emu" \notin Range(libname), flags |-> {}]

gl_version_flags(libname, s) ==
  IF s.USE_WEBGL2
  THEN [ok |-> "-webgl2" \in Range(libname), flags |-> {"-DUSE_WEBGL2=1"}]
  ELSE [ok |-> "-webgl2" \notin Range(libname), flags |-> {}]

\* Whether the asserts pass that a library's builder runs on its file name.
create_asserts(lib, s) ==
  LET libname == cache_name(lib, s) IN
  IF lib.create = "create_libc" THEN threading_flags(libname, s).ok
  ELSE IF lib.create = "create_gl"
       THEN /\ threading_flags(libname, s).ok
            /\ legacy_gl_emulation_flags(libname, s).ok
            /\ gl_version_flags(libname, s).ok
  ELSE TRUE

\* The flags of the compile commands of a library's builder (lib.create).
create_flags(lib, s) ==
  LET libname == cache_name(lib, s)
      threading == IF s.USE_PTHREADS THEN {"-s USE_PTHREADS=1"} ELSE {}
      c == lib.create
      own ==
        IF c = "create_libc"
        THEN {"-Os", "-fno-builtin"} \cup threading_flags(libname, s).flags
        ELSE IF c \in {"create_pthreads", "create_pthreads_asmjs", "create_pthreads_wasm"}
             THEN {"-O2", "-s USE_PTHREADS=1"}
        ELSE IF c \in {"create_pthreads_stub", "create_compiler_rt"} THEN {"-O2"}
        ELSE IF c = "create_wasm_libc" THEN {"-O2", "-fno-builtin"}
        ELSE IF c = "create_libcxx"
             THEN {"-Oz", "-DLIBCXX_BUILDING_LIBCXXABI=1"}
                  \cup (IF s.DISABLE_EXCEPTION_CATCHING THEN {"-fno-exceptions"} ELSE {})
        ELSE IF c \in {"create_libcxxabi", "create_html5"} THEN {"-Oz"}
        ELSE IF c = "create_gl"
             THEN {"-Oz", "-s USE_WEBGL2=1"} \cup threading_flags(libname, s).flags
                  \cup legacy_gl_emulation_flags(libname, s).flags
                  \cup gl_version_flags(libname, s).flags
        ELSE IF c = "create_al" THEN {"-Os"}
        ELSE IF c = "create_malloc"
             THEN {"-O2", "-fno-builtin"} \cup threading
                  \cup (IF s.EMSCRIPTEN_TRACING THEN {"--tracing"} ELSE {})
                  \cup (IF s.DEBUG_LEVEL >= 3 THEN {"-UNDEBUG", "-DDLMALLOC_DEBUG"} ELSE {"-DNDEBUG"})
                  \cup (IF ~s.SUPPORT_ERRNO THEN {"-DMALLOC_FAILURE_ACTION="} ELSE {})
        ELSE {}  \* create_libc_extras
  IN own \cup get_cflags(s)

\* shared.Cache.get(name, creator): the creator runs when the name is not cached.
Cache_get(st, name, flags) ==
  IF name \in DOMAIN st.cache THEN st
  ELSE [st EXCEPT !.cache = (name :> flags) @@ st.cache,
                  !.creates = Append(st.creates, name)]

\* add_back_deps without "if more: add_back_deps(need)": one pass per file.
RECURSIVE add_back_deps_one_pass(_, _, _)
add_back_deps_one_pass(st, k, deps_info) ==
  IF k > Len(st.symbolses) THEN st
  ELSE LET undefs == st.symbolses[k].undefs
           hit == {ident \in DOMAIN deps_info : ident \in undefs /\ ident \notin st.added}
           deps == UNION {deps_info[ident] : ident \in hit}
       IN add_back_deps_one_pass([st EXCEPT !.added = st.added \cup hit,
                                            !.handled = st.handled + Cardinality(hit),
                                            !.symbolses[k].undefs = undefs \cup deps,
                                            !.exported = st.exported \cup deps],
                                 k + 1, deps_info)

\* "for symbols in symbolses: add_back_deps(symbols)", from the k-th scanned
\* file on; "added" is shared by all files, and handled counts the entries
\* of deps_info whose deps were added.
RECURSIVE add_back_deps(_, _, _)
add_back_deps(st, k, deps_info) ==
  IF k > Len(st.symbolses) THEN st
  ELSE LET undefs == st.symbolses[k].undefs
           hit == {ident \in DOMAIN deps_info : ident \in undefs /\ ident \notin st.added}
           deps == UNION {deps_info[ident] : ident \in hit}
       IN IF hit = {} THEN add_back_deps(st, k + 1, deps_info)
          ELSE add_back_deps([st EXCEPT !.added = st.added \cup hit,
                                        !.handled = st.handled + Cardinality(hit),
                                        !.symbolses[k].undefs = undefs \cup deps,
                                        !.exported = st.exported \cup deps],
                             k, deps_info)

RECURSIVE add_library_again(_, _, _, _)
add_library_again(st, stack, force_include, s) ==
  IF stack = <<>> THEN st
  ELSE LET lib == system_libs_map(s)[Head(stack)]
           name == cache_name(lib, s)
           got == Cache_get(st, name, create_flags(lib, s))
           listed == [got EXCEPT !.already_included = st.already_included \cup {lib.shortname},
                                 !.libs_to_link = Append(st.libs_to_link,
                                    [file |-> name, whole |-> FALSE])]
       IN add_library_again(listed,
            (IF lib.shortname \in st.already_included THEN <<>> ELSE lib.deps) \o Tail(stack),
            force_include, s)

\* add_library(lib), with the recursion on lib.deps unfolded into a stack of
\* the names still to be added, in the order the recursion visits them.  A
\* name that is not registered raises KeyError, and a failing assert of the
\* builder raises AssertionError; either ends calculate.
RECURSIVE add_library(_, _, _, _)
add_library(st, stack, force_include, s) ==
  IF stack = <<>> \/ st.raised # "none" THEN st
  ELSE IF Head(stack) \notin DOMAIN system_libs_map(s)
  THEN [st EXCEPT !.raised = "KeyError"]
  ELSE LET lib == system_libs_map(s)[Head(stack)] IN
       IF lib.shortname \in st.already_included
       THEN add_library(st, Tail(stack), force_include, s)
       ELSE IF cache_name(lib, s) \notin DOMAIN st.cache /\ ~create_asserts(lib, s)
       THEN [st EXCEPT !.already_included = @ \cup {lib.shortname},
                       !.raised = "AssertionError"]
       ELSE LET name == cache_name(lib, s)
                got == Cache_get(st, name, create_flags(lib, s))
                need_whole_archive == lib.shortname \in force_include /\ lib.suffix # "bc"
            IN add_library(
                 [got EXCEPT !.already_included = st.already_included \cup {lib.shortname},
                             !.libs_to_link = Append(st.libs_to_link,
                                [file |-> name, whole |-> need_whole_archive])],
                 lib.deps \o Tail(stack), force_include, s)

\* force_include = set((force.split(',') if force else []) + forced)
force_include(env, s) ==
  (IF env.force = {<<"1">>} THEN DOMAIN system_libs_map(s) ELSE env.force)
  \cup env.forced

\* The symbol scan and the soft-dependency pass (calculate, lines 601-625).
scan(st, env) ==
  LET temp_files == IF env.only_forced THEN <<>> ELSE env.temp
      nm == IF Len(temp_files) = 0 THEN <<[defs |-> {}, undefs |-> {}]>> ELSE temp_files
      s0 == [st EXCEPT !.symbolses =
                [nm EXCEPT ![1].undefs = nm[1].undefs \cup st.exported]]
      s1 == add_back_deps(s0, 1, env.deps_info)
  IN [s1 EXCEPT !.exported =
        IF env.only_forced
        THEN s1.exported \cup UNION {env.deps_info[k] : k \in DOMAIN env.deps_info}
        ELSE s1.exported]

\* The iteration without the always_include test.
consider_without_always(st, i, env, s) ==
  LET lib == system_libs(s)[i]
      force_this == lib.shortname \in force_include(env, s)
      files == {st.symbolses[k] : k \in 1..Len(st.symbolses)}
      need_syms == {sym \in lib.symbols : \E f \in files : sym \in f.undefs}
      has_syms == {sym \in lib.symbols : \E f \in files : sym \in f.defs}
  IN IF lib.shortname \in st.already_included THEN st
     ELSE IF ~force_this /\ env.only_forced THEN st
     ELSE IF ~force_this /\ need_syms \ has_syms = {} THEN st
     ELSE add_library(st, <<lib.shortname>>, force_include(env, s), s)

\* One iteration of "for lib in system_libs" (lines 735-765).
consider(st, i, env, s) ==
  LET lib == system_libs(s)[i]
      force_this == lib.shortname \in force_include(env, s)
      include_this == force_this \/ lib.shortname \in always_include(s)
      files == {st.symbolses[k] : k \in 1..Len(st.symbolses)}
      need_syms == {sym \in lib.symbols : \E f \in files : sym \in f.undefs}
      has_syms == {sym \in lib.symbols : \E f \in files : sym \in f.defs}
  IN IF lib.shortname \in st.already_included THEN st
     ELSE IF ~force_this /\ env.only_forced THEN st
     ELSE IF ~include_this /\ need_syms \ has_syms = {} THEN st
     ELSE add_library(st, <<lib.shortname>>, force_include(env, s), s)

\* The selection loop from its i-th iteration to its end.
RECURSIVE select_from(_, _, _, _)
select_from(st, i, env, s) ==
  IF i > Len(system_libs(s)) THEN st
  ELSE select_from(consider(st, i, env, s), i + 1, env, s)

\* "--whole-archive" wrapping of libs_to_link from its k-th entry (lines 782-793).
RECURSIVE wrap(_, _, _)
wrap(libs, k, in_group) ==
  IF k > Len(libs) THEN IF in_group THEN << <<"--no-whole-archive">> >> ELSE <<>>
  ELSE LET w == libs[k].whole
           open == IF w /\ ~in_group THEN << <<"--whole-archive">> >> ELSE <<>>
           g1 == in_group \/ w
           close == IF g1 /\ ~w THEN << <<"--no-whole-archive">> >> ELSE <<>>
       IN open \o close \o <<libs[k].file>> \o wrap(libs, k + 1, g1 /\ w)

\* The end of calculate (lines 767-795): the wasm backend's runtime libraries,
\* the two stable sorts and the wrapping.
finish(st, s) ==
  LET rt_flags == {"-fno-builtin", "-O2", "-s WASM_OBJECT_FILES=1"}
                  \cup (IF s.RELOCATABLE THEN {"-s RELOCATABLE"} ELSE {})
      rt1 == <<"libcompiler_rt_wasm", ".a">>
      rt2 == <<"libc_rt_wasm", ".a">>
      st1 == IF s.WASM_BACKEND
             THEN [Cache_get(Cache_get(st, rt1, rt_flags), rt2, rt_flags)
                     EXCEPT !.libs_to_link = st.libs_to_link \o
                       << [file |-> rt1, whole |-> FALSE], [file |-> rt2, whole |-> FALSE] >>]
             ELSE st
      is_a(x) == x.file[Len(x.file)] = ".a"
      is_abi(x) == Len(x.file) >= 2 /\ x.file[Len(x.file) - 1] = "libc++abi"
                   /\ x.file[Len(x.file)] = ".bc"
      l0 == st1.libs_to_link
      l1 == SelectSeq(l0, LAMBDA x : ~is_a(x)) \o SelectSeq(l0, is_a)
      l2 == SelectSeq(l1, LAMBDA x : ~is_abi(x)) \o SelectSeq(l1, is_abi)
  IN [st1 EXCEPT !.libs_to_link = l2, !.ret = wrap(l2, 1, FALSE), !.pc = "done"]

\* Bounds of the resolver model.
MaxUndefs == 1
MaxRuns == 2

\* Settings of a default asm.js/wasm build.
DefaultSettings ==
  [USE_PTHREADS |-> FALSE, WASM |-> TRUE, WASM_BACKEND |-> FALSE,
   WASM_OBJECT_FILES |-> FALSE, LEGACY_GL_EMULATION |-> FALSE,
   USE_WEBGL2 |-> FALSE, MALLOC |-> "dlmalloc", DEBUG_LEVEL |-> 0,
   SUPPORT_ERRNO |-> TRUE, EMSCRIPTEN_TRACING |-> FALSE,
   DISABLE_EXCEPTION_CATCHING |-> FALSE, RELOCATABLE |-> FALSE]

DefaultEnv ==
  [force |-> {}, forced |-> {}, only_forced |-> FALSE, deps_info |-> <<>>,
   temp |-> << [defs |-> {}, undefs |-> {"printf"}] >>]

\* The arguments and environment of calculate the model explores:
\*   InputSyms    the symbols the scanned inputs may leave undefined
\*   deps_info    src/deps_info.json: no hints, a hint of a JS library
\*                function, or hints that imply each other
CalcEnvs ==
  LET InputSyms == {"printf", "memcpy", "_Znwj", "glClear", "sin", "SDL_Init"}
  IN { [force |-> f, forced |-> d, only_forced |-> o, deps_info |-> di,
        temp |-> t] :
         f \in { {}, {<<"1">>}, {<<"libc++">>}, {<<"libfoo">>} },
         d \in { {}, {<<"libcxxabi">>} },
         o \in BOOLEAN,
         di \in { <<>>, "SDL_Init" :> {"memcpy"},
                  ("SDL_Init" :> {"SDL_Quit"})
                    @@ ("SDL_Quit" :> {"SDL_Init", "memcpy"}) },
         t \in { << [defs |-> {}, undefs |-> u] >> \o more :
                   u \in {x \in SUBSET InputSyms : Cardinality(x) <= MaxUndefs},
                   more \in { <<>>, << [defs |-> {"memcpy"}, undefs |-> {}] >> } } }

\* calculate before its first statement; the cache is kept from earlier runs.
calc_start(cache, runs) ==
  [pc |-> "scan", i |-> 0, symbolses |-> <<>>, exported |-> {"main"},
   added |-> {}, handled |-> 0, libs_to_link |-> <<>>, already_included |-> {},
   cache |-> cache, creates |-> <<>>, ret |-> <<>>, runs |-> runs,
   raised |-> "none"]

InitCalc ==
  /\ \/ csettings \in {s \in CalcSettings : ~s.RELOCATABLE} /\ cenv = DefaultEnv
     \/ /\ csettings \in {[DefaultSettings EXCEPT !.USE_PTHREADS = a, !.WASM_BACKEND = b,
                                              !.WASM_OBJECT_FILES = c] :
                            a \in BOOLEAN, b \in BOOLEAN, c \in BOOLEAN}
        /\ cenv \in CalcEnvs
  /\ calc = calc_start(<<>>, 1)
  /\ Idle("calc")

\* parallel_llvm_nm and the soft-dependency pass
CalcScan ==
  /\ calc.pc = "scan"
  /\ calc' = [scan(calc, cenv) EXCEPT !.pc = "registry"]
  /\ UNCHANGED <<csettings, cenv, notCalc>>

\* The registry is set up and the forced names are checked (lines 632-704).
CalcRegistry ==
  /\ calc.pc = "registry"
  /\ calc' = IF ~malloc_decision(csettings).ok
             THEN [calc EXCEPT !.pc = "error"]
             ELSE IF \E lib \in always_include(csettings) :
                       lib \notin DOMAIN system_libs_map(csettings)
             THEN [calc EXCEPT !.pc = "raised", !.raised = "AssertionError"]
             ELSE IF \E lib \in force_include(cenv, csettings) :
                       lib \notin DOMAIN system_libs_map(csettings)
             THEN [calc EXCEPT !.pc = "error"]
             ELSE [calc EXCEPT !.pc = "select", !.i = 1]
  /\ UNCHANGED <<csettings, cenv, notCalc>>

CalcConsider ==
  /\ calc.pc = "select"
  /\ calc.i <= Len(system_libs(csettings))
  /\ LET st == consider(calc, calc.i, cenv, csettings)
     IN calc' = IF st.raised # "none" THEN [st EXCEPT !.pc = "raised"]
                ELSE [st EXCEPT !.i = calc.i + 1]
  /\ UNCHANGED <<csettings, cenv, notCalc>>

CalcFinish ==
  /\ calc.pc = "select"
  /\ calc.i > Len(system_libs(csettings))
  /\ calc' = finish(calc, csettings)
  /\ UNCHANGED <<csettings, cenv, notCalc>>

NextCalc == CalcScan \/ CalcRegistry \/ CalcConsider \/ CalcFinish

SpecCalc == InitCalc /\ [][NextCalc]_vars

\* A later emcc invocation on the same cache: the same settings, or settings
\* that differ in one of them.
CalcRestart ==
  /\ calc.pc = "done"
  /\ calc.runs < MaxRuns
  /\ \E s2 \in CalcSettings :
       /\ Cardinality({f \in DOMAIN s2 : s2[f] # csettings[f]}) <= 1
       /\ csettings' = s2
  /\ calc' = calc_start(calc.cache, calc.runs + 1)
  /\ UNCHANGED <<cenv, notCalc>>

InitCache ==
  /\ csettings \in {[DefaultSettings EXCEPT !.WASM = a, !.WASM_BACKEND = b] :
                      a \in BOOLEAN, b \in BOOLEAN}
  /\ cenv = DefaultEnv
  /\ calc = calc_start(<<>>, 1)
  /\ Idle("calc")

NextCache == NextCalc \/ CalcRestart

SpecCache == InitCache /\ [][NextCache]_vars

(***************************************************************************)
(* Properties of the registry and of the selection.                        *)
(***************************************************************************)
\* The names reachable from the names in S along deps edges of the registry.
RECURSIVE deps_reach(_, _)
deps_reach(S, m) ==
  LET next == S \cup UNION {Range(m[n].deps) : n \in S}
  IN IF next = S THEN S ELSE deps_reach(next, m)

\* The registered names whose dependency chain leads back to themselves.
on_cycle(s) ==
  LET m == system_libs_map(s)
  IN {n \in DOMAIN m : n \in deps_reach(Range(m[n].deps), m)}

registry_built == calc.pc \in {"select", "done"}

(***************************************************************************)
(* C5 as the spec states it: for every combination of settings the         *)
(* dependency graph over the registered modules is acyclic.                *)
(***************************************************************************)
C5_Acyclic == registry_built => on_cycle(csettings) = {}

(***************************************************************************)
(* C5, amended: for every combination of settings the only modules on a    *)
(* dependency cycle are libc (libc or libc-mt) and libcompiler_rt, which   *)
(* depend on each other; the rest of the graph is acyclic.                 *)
(***************************************************************************)
C5_OnlyLibcCompilerRtCycle ==
  registry_built =>
    on_cycle(csettings) =
      { IF csettings.USE_PTHREADS THEN <<"libc", "-mt">> ELSE <<"libc">>,
        <<"libcompiler_rt">> }

C5_Witness ==
  /\ calc.pc = "done"
  /\ csettings.USE_PTHREADS /\ csettings.WASM_BACKEND /\ csettings.LEGACY_GL_EMULATION
  /\ ~csettings.WASM /\ csettings.DEBUG_LEVEL = 3
  /\ <<"libc", "-mt">> \in calc.already_included

\* How often a registered module is listed in libs_to_link.
times_listed(lib) ==
  Cardinality({k \in 1..Len(calc.libs_to_link) :
     calc.libs_to_link[k].file = cache_name(lib, csettings)})

(***************************************************************************)
(* C4 as the spec states it: when the resolver reaches a dependency cycle  *)
(* while including dependencies it fails with a configuration error; it    *)
(* does not complete silently.                                             *)
(***************************************************************************)
C4_CycleIsError ==
  calc.pc = "done" => calc.already_included \cap on_cycle(csettings) = {}

(***************************************************************************)
(* C4, amended: when add_library meets a module it has already included    *)
(* (which is how a dependency cycle shows) it returns without an error:    *)
(* the recursion ends, every included module is listed exactly once with   *)
(* all its declared dependencies included, and the resolver completes.     *)
(* The only errors of calculate are raised before any module is included.  *)
(***************************************************************************)
C4_CycleEndsAtIncluded ==
  /\ calc.pc = "error" => calc.already_included = {}
  /\ registry_built =>
       LET m == system_libs_map(csettings)
       IN \A n \in calc.already_included :
            /\ times_listed(m[n]) = 1
            /\ Range(m[n].deps) \subseteq calc.already_included

C4_Witness ==
  /\ calc.pc = "done"
  /\ cenv.forced = {} /\ cenv.force = {}
  /\ {<<"libc">>, <<"libcompiler_rt">>} \subseteq calc.already_included
  /\ {<<"libc">>, <<"libcompiler_rt">>} \subseteq on_cycle(csettings)

\* What the built libraries themselves leave undefined: the case the comment
\* at line 682 names, a libc that requires a symbol of libc-extras.
lib_undefs == "create_libc" :> {"emscripten_extra"}

\* The resolution run again on the compiled units together with the chosen
\* libraries (each a file defining its symbols and leaving lib_undefs undefined).
resolve_again ==
  LET L == system_libs(csettings)
      file_of(lib) == [defs |-> lib.symbols,
                       undefs |-> IF lib.create \in DOMAIN lib_undefs
                                  THEN lib_undefs[lib.create] ELSE {}]
      as_files == [k \in 1..Len(L) |->
                     IF L[k].shortname \in calc.already_included THEN file_of(L[k])
                     ELSE [defs |-> {}, undefs |-> {}]]
      env2 == [cenv EXCEPT !.temp = cenv.temp \o as_files]
  IN select_from(scan(calc_start(<<>>, 1), env2), 1, env2, csettings).already_included

(***************************************************************************)
(* C6: the resolver's output is a fixed point: running the resolution      *)
(* again on the compiled units together with the chosen libraries selects  *)
(* no module that was not already selected.                                *)
(***************************************************************************)
C6_FixedPoint ==
  calc.pc = "done" => resolve_again \subseteq calc.already_included

(***************************************************************************)
(* C7: the cache name of a LibraryModule determines the flags it is built  *)
(* with: whenever a resolver run has included a module, the file cached    *)
(* under the module's name was built with the flags this run's settings    *)
(* give the module's build command (runs whose flags differ use different  *)
(* names, so a run never picks up a file built with other flags).          *)
(***************************************************************************)
C7_NameDeterminesFlags ==
  calc.pc = "done" =>
    \A n \in calc.already_included :
      LET lib == system_libs_map(csettings)[n]
      IN calc.cache[cache_name(lib, csettings)] = create_flags(lib, csettings)

(***************************************************************************)
(* emcc.py run(): one build.                                               *)
(*                                                                         *)
(* A path is <<"tmp", name>> in the temporary directory of the build or    *)
(* <<"out", name>> at the output location: "js" is js_target, "html" the   *)
(* html target, "mem" target + '.mem', "asm.js" asm_target, "wasm"         *)
(* wasm_binary_target, "bitcode" the -o target of a bitcode build, and an  *)
(* input's path names the object emitted next to it.                       *)
(***************************************************************************)
MaxInputs == 2
MaxCommands == 2

InputFiles ==
  { [path |-> "a.c", kind |-> "source"], [path |-> "b.c", kind |-> "source"],
    [path |-> "x.bc", kind |-> "bitcode"], [path |-> "h.h", kind |-> "header"] }

\* Settings that run() rejects: a MAIN_MODULE/SIDE_MODULE conflict, an option
\* that pthreads do not support, a TOTAL_MEMORY constraint, an unknown
\* BINARYEN_METHOD, an unknown BINARYEN_TRAP_MODE.
BadSettings == {"module_conflict", "pthreads", "memory", "binaryen_method", "trap_mode"}

\* The command lines and settings the model explores.  mode is the class of
\* final_suffix: "js", "html" or "bc" (not in EXECUTABLE_SUFFIXES); TEMP_DIR is
\* whether EMCC_TEMP_DIR is set.
BuildConfigs ==
  LET Ins == UNION {[1..n -> InputFiles] : n \in 1..MaxInputs}
      has_source(ins) == \E k \in 1..Len(ins) : ins[k].kind \in {"source", "header"}
      Exe == [inputs : Ins, mode : {"js", "html"}, specified_target : {TRUE},
              has_dash_c : {FALSE}, llvm_opts : BOOLEAN, memory_init_file : BOOLEAN,
              EMTERPRETIFY : BOOLEAN, BINARYEN : BOOLEAN,
              forced : { {}, {<<"libcxxabi">>} }, SIDE_MODULE : BOOLEAN,
              stale : {FALSE}, TEMP_DIR : BOOLEAN, bad_setting : {"none"}]
      Bad == [inputs : {<<[path |-> "a.c", kind |-> "source"]>>}, mode : {"js"},
              specified_target : {TRUE}, has_dash_c : {FALSE}, llvm_opts : {FALSE},
              memory_init_file : BOOLEAN, EMTERPRETIFY : {FALSE}, BINARYEN : BOOLEAN,
              forced : { {} }, SIDE_MODULE : {FALSE}, stale : {FALSE},
              TEMP_DIR : {FALSE}, bad_setting : BadSettings]
      Bc == [inputs : Ins, mode : {"bc"}, specified_target : BOOLEAN,
             has_dash_c : BOOLEAN, llvm_opts : BOOLEAN, memory_init_file : {FALSE},
             EMTERPRETIFY : {FALSE}, BINARYEN : {FALSE},
             forced : { {} }, SIDE_MODULE : {FALSE}, stale : BOOLEAN,
             TEMP_DIR : BOOLEAN, bad_setting : {"none"}]
  IN Exe \cup Bad
       \cup {o \in Bc : /\ o.has_dash_c => has_source(o.inputs)
                        /\ (o.specified_target \/ o.has_dash_c)}

\* get_bitcode_file(input_file)
get_bitcode_file(input, o) ==
  IF o.mode = "bc"
  THEN IF Len(o.inputs) = 1
       THEN IF o.specified_target THEN <<"out", "bitcode">> ELSE <<"out", input.path>>
       ELSE IF o.has_dash_c THEN <<"out", input.path>> ELSE <<"tmp", input.path>>
  ELSE <<"tmp", input.path>>

\* A subprocess is spawned.
spawn(b, kind, arg) ==
  [b EXCEPT !.spawned = Append(b.spawned, [kind |-> kind, arg |-> arg])]

\* Files are written; those at the output location are noted as touched.
write(b, paths) ==
  [b EXCEPT !.fs = b.fs \cup paths,
            !.touched = b.touched \cup {p \in paths : p[1] = "out"}]

\* shared.try_delete and friends
delete(b, paths) ==
  [b EXCEPT !.fs = b.fs \ paths,
            !.touched = b.touched \cup {p \in paths \cap b.fs : p[1] = "out"}]

\* run() with the removal as the last statement of the function and no
\* "finally": it is reached when run() returns only.
leave_without_finally(b, code, stage) ==
  [b EXCEPT !.pc = "exit", !.code = code, !.left_at = stage,
            !.fs = IF b.TEMP_DIR \/ code # 0 THEN b.fs ELSE {p \in b.fs : p[1] # "tmp"},
            !.temp_dir = IF b.temp_dir = "made" /\ ~b.TEMP_DIR /\ code = 0
                         THEN "removed" ELSE b.temp_dir]

\* run() ends: sys.exit, exit(0), an exception or the end of the function.
\* Once inside "try", "finally: if not TEMP_DIR: shutil.rmtree(temp_dir)" runs.
leave(b, code, stage) ==
  [b EXCEPT !.pc = "exit", !.code = code, !.left_at = stage,
            !.fs = IF b.TEMP_DIR THEN b.fs ELSE {p \in b.fs : p[1] # "tmp"},
            !.temp_dir = IF b.temp_dir = "made" /\ ~b.TEMP_DIR THEN "removed"
                         ELSE b.temp_dir]

\* compile_source_file(i, input_file); the front end's outcome is "ok" (the
\* object is written), or a failure that leaves or removes what is at the path.
compile_source_file(b, i, o, outcome) ==
  LET output_file == get_bitcode_file(o.inputs[i], o)
      b1 == spawn([b EXCEPT !.temp_files = Append(b.temp_files, output_file),
                            !.results = Append(b.results, outcome)],
                  "frontend", i)
      b2 == IF outcome = "ok" THEN write(b1, {output_file})
            ELSE IF outcome = "fail_remove" THEN delete(b1, {output_file})
            ELSE b1
  IN IF output_file \notin b2.fs THEN leave(b2, 1, "compile")
     ELSE [b2 EXCEPT !.i = b.i + 1]

\* The state of run() on entry.  A stale build leaves an object of an earlier
\* build where the first input's object goes.
build_start(o) ==
  [pc |-> "setup", i |-> 1, temp_dir |-> "none", TEMP_DIR |-> o.TEMP_DIR,
   fs |-> IF o.stale THEN {get_bitcode_file(o.inputs[1], o)} ELSE {},
   touched |-> {}, spawned |-> <<>>, temp_files |-> <<>>, results |-> <<>>,
   cmds |-> <<>>, cores |-> 0, windows |-> FALSE, num_cores |-> 0,
   code |-> "none", left_at |-> "none"]

Init ==
  /\ bopt \in BuildConfigs
  /\ build = build_start(bopt)
  /\ Idle("build")

\* A setup that only checks the MAIN_MODULE/SIDE_MODULE conflict.
static_error_modules_only(o) ==
  o.bad_setting = "module_conflict"

\* The checks of block 'parse arguments and setup' that read only the settings.
static_error(o) ==
  o.bad_setting \in {"module_conflict", "pthreads", "memory"}

\* run() up to the end of block 'parse arguments and setup': the response
\* files are read, the temporary directory is made, "try" is entered, and the
\* arguments and settings are checked.
Setup ==
  /\ build.pc = "setup"
  /\ \E response_ok \in BOOLEAN :
       LET b1 == [build EXCEPT !.temp_dir = "made"]
       IN build' = IF ~response_ok THEN leave(build, 1, "response_file")
                   ELSE IF static_error(bopt) THEN leave(b1, 1, "settings")
                   ELSE [b1 EXCEPT !.pc = "headers"]
  /\ UNCHANGED <<bopt, notBuild>>

input_kinds(o) == {o.inputs[k].kind : k \in 1..Len(o.inputs)}

\* A header mode that goes on to the compile loop after the front end ran.
precompile_headers_and_go_on(b, o) ==
  IF input_kinds(o) # {"header"} THEN leave(b, 1, "headers")
  ELSE [spawn(b, "frontend_headers", Len(o.inputs)) EXCEPT !.pc = "compile"]

\* "Precompiled headers support": every input must be a header; they go to one
\* front-end invocation and run() exits with 0 whatever the front end returned.
precompile_headers(b, o) ==
  IF input_kinds(o) # {"header"} THEN leave(b, 1, "headers")
  ELSE leave(spawn(b, "frontend_headers", Len(o.inputs)), 0, "headers")

\* "if has_header_inputs:" at the head of block 'bitcodeize inputs'
PrecompileHeaders ==
  /\ build.pc = "headers"
  /\ build' = IF "header" \notin input_kinds(bopt) THEN [build EXCEPT !.pc = "compile"]
              ELSE precompile_headers(build, bopt)
  /\ UNCHANGED <<bopt, notBuild>>

\* "for i, input_file in input_files" of block 'bitcodeize inputs': one input.
CompileInput ==
  /\ build.pc = "compile"
  /\ LET input == bopt.inputs[build.i]
         after(b) == IF b.pc = "compile" /\ b.i > Len(bopt.inputs)
                     THEN [b EXCEPT !.pc = "process_inputs"] ELSE b
     IN IF input.kind = "source"
        THEN \E outcome \in {"ok", "fail_keep", "fail_remove"} :
               build' = after(compile_source_file(build, build.i, bopt, outcome))
        ELSE build' = after([build EXCEPT
                               !.temp_files = Append(build.temp_files, <<"in", input.path>>),
                               !.results = Append(build.results, "none"),
                               !.i = build.i + 1])
  /\ UNCHANGED <<bopt, notBuild>>

\* "If we were just asked to generate bitcode, stop there" (block 'process inputs')
stop_at_bitcode(b, o, ok) ==
  IF ~o.specified_target
  THEN leave(write(b, {<<"out", o.inputs[k].path>> : k \in 1..Len(o.inputs)}), 0, "bitcode")
  ELSE IF Len(o.inputs) = 1
  THEN leave(write(b, {<<"out", "bitcode">>}), 0, "bitcode")
  ELSE IF o.has_dash_c
  THEN leave(b, 1, "bitcode")
  ELSE IF ok
  THEN leave(write(spawn(b, "link", 0), {<<"out", "bitcode">>}), 0, "bitcode")
  ELSE leave(spawn(b, "link", 0), 1, "bitcode")

\* Block 'process inputs': llvm_opt on each compiled source, then the stop at
\* bitcode.  An optimizer that fails does so on the first source.
ProcessInputs ==
  /\ build.pc = "process_inputs"
  /\ \E ok \in BOOLEAN :
       LET srcs == SelectSeq([k \in 1..Len(bopt.inputs) |-> k],
                             LAMBDA k : bopt.inputs[k].kind = "source")
           opt == bopt.llvm_opts /\ srcs # <<>>
           b1 == IF ~opt THEN build
                 ELSE IF ~ok THEN spawn(build, "llvm_opt", srcs[1])
                 ELSE [build EXCEPT !.spawned =
                         build.spawned \o [k \in 1..Len(srcs) |->
                                             [kind |-> "llvm_opt", arg |-> srcs[k]]]]
       IN build' = IF opt /\ ~ok THEN leave(b1, 1, "llvm_opt")
                   ELSE IF bopt.mode = "bc" THEN stop_at_bitcode(b1, bopt, ok)
                   ELSE [b1 EXCEPT !.pc = "calculate"]
  /\ UNCHANGED <<bopt, notBuild>>

\* A calculate() that scans the inputs before it reads the symbol tables.
calculate_scan_first(b, symbols_ok) ==
  IF ~symbols_ok THEN leave(spawn(b, "llvm-nm", 0), 1, "read_symbols")
  ELSE [spawn(b, "llvm-nm", 0) EXCEPT !.pc = "forced_check"]

\* calculate() up to the symbol scan: the *.symbols files are read first, and
\* a read that fails raises.
calculate_entry(b, symbols_ok) ==
  IF ~symbols_ok THEN leave(b, 1, "read_symbols")
  ELSE [spawn(b, "llvm-nm", 0) EXCEPT !.pc = "forced_check"]

\* Block 'calculate system libraries' up to the symbol scan of calculate().
\* Side modules link no system libraries.
CalculateScan ==
  /\ build.pc = "calculate"
  /\ \E symbols_ok \in BOOLEAN :
       build' = IF bopt.SIDE_MODULE THEN [build EXCEPT !.pc = "link"]
                ELSE calculate_entry(build, symbols_ok)
  /\ UNCHANGED <<bopt, notBuild>>

\* A check that lets every forced name through.
invalid_forced_never(o) ==
  FALSE

\* "for forced in force_include: if forced not in system_libs_map: exit_with_error"
invalid_forced(o) ==
  \E lib \in force_include([force |-> {}, forced |-> o.forced], DefaultSettings) :
     lib \notin DOMAIN system_libs_map(DefaultSettings)

ForcedCheck ==
  /\ build.pc = "forced_check"
  /\ build' = IF invalid_forced(bopt) THEN leave(build, 1, "forced_check")
              ELSE [build EXCEPT !.pc = "libs"]
  /\ UNCHANGED <<bopt, notBuild>>

\* run_commands with the worker pool on every platform.
run_commands_cores_any_platform(windows, commands, num_cores) ==
  IF commands < num_cores THEN commands ELSE num_cores

\* run_commands(commands): cores is 1 on Windows and
\* min(len(commands), get_num_cores()) elsewhere.
run_commands_cores(windows, commands, num_cores) ==
  IF windows THEN 1
  ELSE IF commands < num_cores THEN commands ELSE num_cores

\* Cache.get of a library: a hit links the cached file, a miss runs its
\* creator, which hands up to MaxCommands compile commands to run_commands.
LibDispatch ==
  /\ build.pc = "libs"
  /\ \E hit \in BOOLEAN, windows \in BOOLEAN, num_cores \in 1..2,
        commands \in 1..MaxCommands :
       build' = IF hit THEN [build EXCEPT !.pc = "link"]
                ELSE [build EXCEPT !.pc = "run_commands",
                                   !.windows = windows, !.num_cores = num_cores,
                                   !.cores = run_commands_cores(windows, commands,
                                                                num_cores),
                                   !.cmds = [k \in 1..commands |-> "pending"]]
  /\ UNCHANGED <<bopt, notBuild>>

\* call_process(command) starts: in the loop after the previous command has
\* returned, in the pool when a worker is free.
CommandStart(k) ==
  /\ build.pc = "run_commands"
  /\ k <= Len(build.cmds)
  /\ build.cmds[k] = "pending"
  /\ \A j \in 1..(k - 1) : build.cmds[j] # "pending"
  /\ IF build.cores <= 1
     THEN \A j \in 1..(k - 1) : build.cmds[j] = "ok"
     ELSE Cardinality({j \in 1..Len(build.cmds) : build.cmds[j] = "running"}) < build.cores
  /\ build' = [spawn(build, "library", k) EXCEPT !.cmds[k] = "running"]
  /\ UNCHANGED <<bopt, notBuild>>

CommandReturn(k) ==
  /\ build.pc = "run_commands"
  /\ k <= Len(build.cmds)
  /\ build.cmds[k] = "running"
  /\ \E r \in {"ok", "failed"} : build' = [build EXCEPT !.cmds[k] = r]
  /\ UNCHANGED <<bopt, notBuild>>

\* run_commands returns: the loop is over, or map_async(...).get() has every
\* result.
returned_early(cmds) ==
  cmds[1] = "ok"

returned(cmds) ==
  \A k \in 1..Len(cmds) : cmds[k] = "ok"

RunCommandsReturn ==
  /\ build.pc = "run_commands"
  /\ returned(build.cmds)
  /\ build' = [build EXCEPT !.pc = "create_lib"]
  /\ UNCHANGED <<bopt, notBuild>>

\* A failed command raises out of run_commands and ends the build.
RunCommandsRaise ==
  /\ build.pc = "run_commands"
  /\ \E k \in 1..Len(build.cmds) : build.cmds[k] = "failed"
  /\ build' = leave(build, 1, "library")
  /\ UNCHANGED <<bopt, notBuild>>

\* create_lib(in_temp(lib_filename), o_s)
CreateLib ==
  /\ build.pc = "create_lib"
  /\ \E ok \in BOOLEAN :
       build' = IF ok THEN [spawn(build, "create_lib", 0) EXCEPT !.pc = "link"]
                ELSE leave(spawn(build, "create_lib", 0), 1, "library")
  /\ UNCHANGED <<bopt, notBuild>>

\* A stage whose tool writes js_target in place.
stage_in_place(b, kind, ok, next) ==
  IF ok THEN [write(spawn(b, kind, 0), {<<"out", "js">>}) EXCEPT !.pc = next]
  ELSE leave(write(spawn(b, kind, 0), {<<"out", "js">>}), 1, kind)

\* A stage that runs one tool on the intermediate file in the temporary area.
stage(b, kind, ok, next) ==
  IF ok THEN [spawn(b, kind, 0) EXCEPT !.pc = next]
  ELSE leave(spawn(b, kind, 0), 1, kind)

\* Block 'link'
Link ==
  /\ build.pc = "link"
  /\ \E ok \in BOOLEAN : build' = stage(build, "link", ok, "post_link")
  /\ UNCHANGED <<bopt, notBuild>>

\* Block 'post-link': llvm_opt of the linked module with link_opts, which is
\* never empty
PostLink ==
  /\ build.pc = "post_link"
  /\ \E ok \in BOOLEAN :
       build' = stage(build, "llvm_opt_final", ok, "emscript")
  /\ UNCHANGED <<bopt, notBuild>>

\* Block 'emscript': Building.emscripten(final)
Emscript ==
  /\ build.pc = "emscript"
  /\ \E ok \in BOOLEAN :
       build' = stage(build, "emscripten", ok, "memory_initializer")
  /\ UNCHANGED <<bopt, notBuild>>

\* Block 'memory initializer': target + '.mem' is deleted, then written in
\* place when the program has initialized memory.
MemoryInitializer ==
  /\ build.pc = "memory_initializer"
  /\ \E membytes \in BOOLEAN :
       LET memfile == <<"out", "mem">>
           b1 == IF bopt.memory_init_file THEN delete(build, {memfile}) ELSE build
           b2 == IF bopt.memory_init_file /\ membytes THEN write(b1, {memfile}) ELSE b1
       IN build' = [b2 EXCEPT !.pc = "js_opts"]
  /\ UNCHANGED <<bopt, notBuild>>

\* Block 'js opts': the optimizer's passes and flushes
JsOpts ==
  /\ build.pc = "js_opts"
  /\ \E ok \in BOOLEAN :
       build' = stage(build, "js_optimizer", ok, "final_emitting")
  /\ UNCHANGED <<bopt, notBuild>>

\* emterpretify(js_target, optimizer, options): final is moved to js_target as
\* a scratch file for the tool, and "finally: try_delete(js_target)".
emterpretify(b) ==
  delete(write(spawn(b, "emterpretify", 0), {<<"out", "js">>}), {<<"out", "js">>})

\* Block 'final emitting' up to "shutil.move(final, js_target)".  separate_asm_js
\* and do_binaryen write asm_target and wasm_binary_target in place;
\* binaryen_method_sanity_check and do_binaryen reject a bad BINARYEN_METHOD
\* and a bad BINARYEN_TRAP_MODE.
final_emitting(b, o, outcome) ==
  LET b1 == IF o.EMTERPRETIFY THEN emterpretify(b) ELSE b
      b2 == IF o.BINARYEN THEN write(spawn(b1, "separate_asm", 0), {<<"out", "asm.js">>})
            ELSE b1
      b3 == IF o.BINARYEN THEN write(spawn(b2, "asm2wasm", 0), {<<"out", "wasm">>})
            ELSE b2
  IN IF outcome = "fail_emterpretify" THEN leave(b1, 1, "final_emitting")
     ELSE IF outcome = "fail_separate_asm" THEN leave(spawn(b1, "separate_asm", 0), 1, "final_emitting")
     ELSE IF o.bad_setting = "binaryen_method" THEN leave(b2, 1, "settings")
     ELSE IF o.BINARYEN /\ o.bad_setting = "trap_mode" THEN leave(b2, 1, "settings")
     ELSE IF outcome = "fail_binaryen" THEN leave(spawn(b2, "asm2wasm", 0), 1, "final_emitting")
     ELSE [write(b3, {<<"out", "js">>}) EXCEPT !.pc = "generate_html"]

FinalEmitting ==
  /\ build.pc = "final_emitting"
  /\ \E outcome \in {"ok"}
                    \cup (IF bopt.EMTERPRETIFY THEN {"fail_emterpretify"} ELSE {})
                    \cup (IF bopt.BINARYEN THEN {"fail_separate_asm", "fail_binaryen"} ELSE {}) :
       build' = final_emitting(build, bopt, outcome)
  /\ UNCHANGED <<bopt, notBuild>>

\* generate_html(target, ...) for an html target, then the end of run().
GenerateHtml ==
  /\ build.pc = "generate_html"
  /\ \E ok \in BOOLEAN :
       build' = IF bopt.mode # "html" THEN leave(build, 0, "done")
                ELSE IF ok THEN leave(write(build, {<<"out", "html">>}), 0, "done")
                ELSE leave(build, 1, "generate_html")
  /\ UNCHANGED <<bopt, notBuild>>

Next ==
  \/ Setup
  \/ PrecompileHeaders
  \/ CompileInput
  \/ ProcessInputs
  \/ CalculateScan
  \/ ForcedCheck
  \/ LibDispatch
  \/ \E k \in 1..MaxCommands : CommandStart(k)
  \/ \E k \in 1..MaxCommands : CommandReturn(k)
  \/ RunCommandsReturn
  \/ RunCommandsRaise
  \/ CreateLib
  \/ Link
  \/ PostLink
  \/ Emscript
  \/ MemoryInitializer
  \/ JsOpts
  \/ FinalEmitting
  \/ GenerateHtml

Spec == Init /\ [][Next]_vars

(***************************************************************************)
(* Properties of one build (Spec).                                         *)
(***************************************************************************)
js_and_html == {<<"out", "js">>, <<"out", "html">>}

spawned_kinds == {build.spawned[k].kind : k \in 1..Len(build.spawned)}

\* C1, as stated: a build that ends in a fatal error at any stage has created
\* or modified no file at the requested output location.
C1_FailedBuildTouchesNothing ==
  (build.pc = "exit" /\ build.code = 1) => build.touched = {}

\* C1, amended: in a JavaScript or HTML build without EMTERPRETIFY, js_target
\* and the html target are created or modified only after compile, link, IR
\* optimization, backend emission and the pass pipeline all succeeded, so a
\* build that fails in one of those stages leaves them alone.  (target.mem,
\* asm_target and the wasm target are written in place by their stages.)
C1_TargetByFinalMove ==
  (build.touched \cap js_and_html # {} /\ ~bopt.EMTERPRETIFY)
    => /\ {"link", "llvm_opt_final", "emscripten", "js_optimizer"} \subseteq spawned_kinds
       /\ build.pc \in {"generate_html", "exit"}
       /\ build.pc = "exit" => build.left_at \in {"done", "generate_html"}

\* A build fails in 'final emitting' after target.mem was written, and js_target
\* is untouched.
C1_Witness ==
  /\ build.pc = "exit" /\ build.code = 1 /\ build.left_at = "final_emitting"
  /\ ~bopt.EMTERPRETIFY
  /\ <<"out", "mem">> \in build.touched
  /\ build.touched \cap js_and_html = {}

\* C2: a front-end invocation that does not produce the IR object stops the
\* build with exit code 1 before any later input is compiled and before linking.
C2_FailedCompileStops ==
  \A k \in 1..Len(build.results) :
     build.results[k] \in {"fail_keep", "fail_remove"}
       => /\ build.pc = "exit" /\ build.code = 1 /\ build.left_at = "compile"
          /\ Len(build.results) = k

C9_BatchCompletesFirst ==
  /\ \A k \in 1..Len(build.spawned) :
       build.spawned[k].kind \in {"llvm_opt", "llvm-nm", "link"}
         => /\ Len(build.results) = Len(bopt.inputs)
            /\ \A i \in 1..Len(bopt.inputs) :
                 bopt.inputs[i].kind = "source"
                   => \E j \in 1..(k - 1) : build.spawned[j] = [kind |-> "frontend", arg |-> i]
  /\ (build.pc = "create_lib" \/ "create_lib" \in spawned_kinds)
       => \A c \in 1..Len(build.cmds) : build.cmds[c] = "ok"

\* Two sources are compiled, a library is built on two workers and archived,
\* and the link has run.
C9_Witness ==
  /\ Len(bopt.inputs) >= 2
  /\ \A i \in 1..Len(bopt.inputs) : bopt.inputs[i].kind = "source"
  /\ build.cores >= 2
  /\ {"create_lib", "link"} \subseteq spawned_kinds

(***************************************************************************)
(* emcc.py run(): the command line.                                        *)
(*                                                                         *)
(* An argument is a sequence of strings, its name first: <<"-O2">>,        *)
(* <<"@", "F">> for @F, <<"--js-opts", "=", "1">> for --js-opts=1.  So     *)
(* arg[0] == '@' and arg.startswith('--js-opts') are tests on the first    *)
(* element, and arg == '--cache' is a test on the whole sequence.          *)
(***************************************************************************)
MaxArgs == 3

\* The response files on disk.  F may name G; G may name itself.
ResponseFiles ==
  LET missing == [exists |-> FALSE, tokens |-> <<>>]
      file(t) == [exists |-> TRUE, tokens |-> t]
  IN { [F |-> f, G |-> g] :
         f \in {missing, file(<< <<"-O2">>, <<"a.c">> >>),
                file(<< <<"--emscripten-cxx">>, <<"a.c">> >>),
                file(<< <<"@", "G">>, <<"-O2">> >>)},
         g \in {missing, file(<<>>), file(<< <<"a.c">> >>),
                file(<< <<"@", "G">> >>)} }

ResponseArgs ==
  {<<"-O2">>, <<"a.c">>, <<"--emscripten-cxx">>, <<"@", "F">>, <<"@", "G">>}

\* Arguments of the option parser: options that take a value, in both
\* spellings, and values.
OptionArgs ==
  {<<"a.c">>, <<"1">>, <<"--js-opts">>, <<"--js-opts", "=", "1">>,
   <<"--memory-init-file">>, <<"--memory-init-file", "=", "0">>,
   <<"-o">>, <<"-o", "=", "X">>}

\* KEY=VALUE arguments of -s.
SettingArgs ==
  {<<"STRICT", "=", "1">>, <<"STRICT", "=", "0">>,
   <<"ERROR_ON_UNDEFINED_SYMBOLS", "=", "0">>,
   <<"ERROR_ON_MISSING_LIBRARIES", "=", "0">>,
   <<"ERROR_ON_MISSING_LIBRARIES", "=", "1">>}

MaxSettings == 2

\* The settings run() starts from (src/settings.js).
SettingsDefaults ==
  [STRICT |-> 0, ERROR_ON_UNDEFINED_SYMBOLS |-> 0, ERROR_ON_MISSING_LIBRARIES |-> 0]

\* The state of run() on entry, with sys.argv = [emcc] + user arguments and
\* EMCC_STRICT "unset", "0" or "1" in the environment.
args_start(user, strict) ==
  [pc |-> "start", argv0 |-> user, argv |-> << <<"emcc">> >> \o user,
   EMCC_CXX |-> FALSE, EMCC_STRICT |-> strict, target |-> <<>>,
   options |-> [js_opts |-> "None", memory_init_file |-> "None"],
   newargs |-> <<>>, settings_changes |-> <<>>, Settings |-> SettingsDefaults,
   first |-> [pc |-> "none"]]

\* read_response_file(response_filename)
read_response_file(files, arg) ==
  LET response_filename == arg[2]
  IN IF ~files[response_filename].exists
     THEN [raised |-> TRUE, args |-> <<>>]
     ELSE [raised |-> FALSE, args |-> files[response_filename].tokens]

InitArgs ==
  /\ \/ \E n \in 0..MaxArgs : \E user \in [1..n -> ResponseArgs] :
          args = args_start(user, "unset")
     \/ \E n \in 1..MaxArgs : \E user \in [1..n -> OptionArgs] :
          args = args_start(user, "unset")
     \/ \E n \in 0..MaxSettings : \E changes \in [1..n -> SettingArgs] :
          \E strict \in {"unset", "0", "1"} :
            args = args_start(<< <<"a.c">> >> \o
                                [k \in 1..(2 * n) |-> IF k % 2 = 1 THEN <<"-s">>
                                                      ELSE changes[k \div 2]],
                              strict)
  /\ rsp \in ResponseFiles
  /\ (\A k \in 1..Len(args.argv) : args.argv[k][1] # "@")
       => \A f \in DOMAIN rsp : ~rsp[f].exists
  /\ Idle("args")

\* "EMCC_CXX = '--emscripten-cxx' in sys.argv", the filter, and "no input files"
ArgsStart ==
  /\ args.pc = "start"
  /\ LET cxx == \E k \in 1..Len(args.argv) : args.argv[k] = <<"--emscripten-cxx">>
         argv == SelectSeq(args.argv, LAMBDA a : a # <<"--emscripten-cxx">>)
     IN args' = [args EXCEPT !.EMCC_CXX = cxx, !.argv = argv,
                             !.pc = IF Len(argv) = 1 THEN "exit" ELSE "response"]
  /\ UNCHANGED <<rsp, notArgs>>

\* One round of "while response_file": the first argument that starts with
\* '@' is replaced by the tokens of its file.
ReadResponse ==
  /\ args.pc = "response"
  /\ LET found == {k \in 2..Len(args.argv) : args.argv[k][1] = "@"}
     IN IF found = {} THEN args' = [args EXCEPT !.pc = "parse"]
        ELSE LET index == CHOOSE k \in found : \A j \in found : k <= j
                 extra_args == read_response_file(rsp, args.argv[index])
             IN args' = IF extra_args.raised THEN [args EXCEPT !.pc = "raised"]
                        ELSE [args EXCEPT !.argv =
                                SubSeq(args.argv, 1, index - 1) \o extra_args.args
                                \o SubSeq(args.argv, index + 1, Len(args.argv))]
  /\ UNCHANGED <<rsp, notArgs>>

\* "Check if a target is specified": the last argument is not looked at, and
\* the loop stops at the first -o.
FindTarget ==
  /\ args.pc = "parse"
  /\ LET found == {k \in 1..(Len(args.argv) - 1) : args.argv[k][1] = "-o"}
     IN IF found = {} THEN args' = [args EXCEPT !.pc = "parse_args"]
        ELSE LET i == CHOOSE k \in found : \A j \in found : k <= j
             IN args' = IF Len(args.argv[i]) > 1 THEN [args EXCEPT !.pc = "raised"]
                        ELSE [args EXCEPT !.pc = "parse_args",
                                          !.target = args.argv[i + 1],
                                          !.argv = SubSeq(args.argv, 1, i - 1)
                                                   \o SubSeq(args.argv, i + 2, Len(args.argv))]
  /\ UNCHANGED <<rsp, notArgs>>

\* Options whose branch of parse_args tests newargs[i].startswith(option) and
\* calls check_bad_eq, and options whose branch tests newargs[i] == option.
StartswithOptions == {"--js-opts"}
EqualsOptions == {"--memory-init-file"}

\* parse_args(newargs), from argument i on.  eval and int raise on a value that
\* is not a number, newargs[i+1] on a missing value, check_bad_eq on an '='.
RECURSIVE parse_args(_, _)
parse_args(st, i) ==
  IF st.raised \/ i > Len(st.newargs) THEN st
  ELSE LET arg == st.newargs[i]
           taken == [st EXCEPT !.newargs[i] = <<"">>, !.newargs[i + 1] = <<"">>]
           bad_value == \/ i + 1 > Len(st.newargs)
                        \/ st.newargs[i + 1] \notin {<<"0">>, <<"1">>}
       IN IF arg[1] \in StartswithOptions
          THEN IF Len(arg) > 1 \/ bad_value THEN [st EXCEPT !.raised = TRUE]
               ELSE parse_args([taken EXCEPT !.options.js_opts = st.newargs[i + 1][1]],
                               i + 1)
          ELSE IF Len(arg) = 1 /\ arg[1] \in EqualsOptions
          THEN IF bad_value THEN [st EXCEPT !.raised = TRUE]
               ELSE parse_args([taken EXCEPT !.options.memory_init_file =
                                               st.newargs[i + 1][1]],
                               i + 1)
          ELSE parse_args(st, i + 1)

\* "if newargs[i] == '-s': if is_minus_s_for_emcc(newargs, i): ..."
RECURSIVE collect_settings(_, _)
collect_settings(st, i) ==
  IF i > Len(st.newargs) THEN st
  ELSE IF /\ st.newargs[i] = <<"-s">>
          /\ i + 1 <= Len(st.newargs)
          /\ Len(st.newargs[i + 1]) = 3
          /\ st.newargs[i + 1][2] = "="
  THEN collect_settings([st EXCEPT !.settings_changes = Append(@, st.newargs[i + 1]),
                                   !.newargs[i] = <<"">>, !.newargs[i + 1] = <<"">>],
                        i + 1)
  ELSE collect_settings(st, i + 1)

\* "newargs = sys.argv[1:]", parse_args and the -s loop of run(); what is left
\* in newargs goes to the native compiler.
ParseArgs ==
  /\ args.pc = "parse_args"
  /\ LET blank(v) == SelectSeq(v, LAMBDA a : a # <<"">>)
         st0 == [newargs |-> Tail(args.argv), options |-> args.options,
                 settings_changes |-> <<>>, raised |-> FALSE]
         st1 == parse_args(st0, 1)
         st2 == collect_settings([st1 EXCEPT !.newargs = blank(st1.newargs)], 1)
     IN args' = IF st1.raised THEN [args EXCEPT !.pc = "raised"]
                ELSE [args EXCEPT !.pc = "settings",
                                  !.options = st2.options,
                                  !.newargs = blank(st2.newargs),
                                  !.settings_changes = st2.settings_changes]
  /\ UNCHANGED <<rsp, notArgs>>

\* A run() that skips the -s changes of settings forced by STRICT.
apply_settings_locked(changes, strict) ==
  LET last(setting) ==
        LET ks == {k \in 1..Len(changes) : changes[k][1] = setting}
        IN IF ks = {} THEN "None" ELSE changes[CHOOSE k \in ks : \A j \in ks : j <= k][3]
      int(v) == IF v = "1" THEN 1 ELSE 0
      STRICT == IF last("STRICT") # "None" THEN int(last("STRICT"))
                ELSE IF strict # "unset" THEN (IF strict # "0" THEN 1 ELSE 0)
                ELSE SettingsDefaults.STRICT
  IN [STRICT |-> STRICT,
      ERROR_ON_UNDEFINED_SYMBOLS |->
        IF STRICT # 0 THEN 1
        ELSE IF last("ERROR_ON_UNDEFINED_SYMBOLS") # "None"
        THEN int(last("ERROR_ON_UNDEFINED_SYMBOLS"))
        ELSE SettingsDefaults.ERROR_ON_UNDEFINED_SYMBOLS,
      ERROR_ON_MISSING_LIBRARIES |->
        IF STRICT # 0 THEN 1
        ELSE IF last("ERROR_ON_MISSING_LIBRARIES") # "None"
        THEN int(last("ERROR_ON_MISSING_LIBRARIES"))
        ELSE SettingsDefaults.ERROR_ON_MISSING_LIBRARIES]

\* EMCC_STRICT, get_last_setting_change('STRICT'), the settings STRICT forces,
\* and then "for change in settings_changes: exec 'shared.Settings.' + key
\* + ' = ' + value", in command-line order.
apply_settings(changes, strict) ==
  LET int(v) == IF v = "1" THEN 1 ELSE 0
      last(setting) ==
        LET ks == {k \in 1..Len(changes) : changes[k][1] = setting}
        IN IF ks = {} THEN "None" ELSE changes[CHOOSE k \in ks : \A j \in ks : j <= k][3]
      s0 == IF strict # "unset"
            THEN [SettingsDefaults EXCEPT !.STRICT = IF strict # "0" THEN 1 ELSE 0]
            ELSE SettingsDefaults
      s1 == IF last("STRICT") # "None" THEN [s0 EXCEPT !.STRICT = int(last("STRICT"))]
            ELSE s0
      s2 == IF s1.STRICT # 0
            THEN [s1 EXCEPT !.ERROR_ON_UNDEFINED_SYMBOLS = 1,
                            !.ERROR_ON_MISSING_LIBRARIES = 1]
            ELSE s1
      s3 == IF last("ERROR_ON_MISSING_LIBRARIES") # "None"
            THEN [s2 EXCEPT !.ERROR_ON_MISSING_LIBRARIES =
                              int(last("ERROR_ON_MISSING_LIBRARIES"))]
            ELSE s2
      exec[k \in 0..Len(changes)] ==
        IF k = 0 THEN s3
        ELSE [exec[k - 1] EXCEPT ![changes[k][1]] = int(changes[k][3])]
  IN exec[Len(changes)]

ApplySettings ==
  /\ args.pc = "settings"
  /\ args' = [args EXCEPT !.pc = "done",
                          !.Settings = apply_settings(args.settings_changes,
                                                      args.EMCC_STRICT)]
  /\ UNCHANGED <<rsp, notArgs>>

\* A second run() in the process of the first: sys.argv and shared.Settings
\* are what the first left.
next_invocation_same_process(a) ==
  [a EXCEPT !.pc = "start", !.first = a]

\* "if __name__ == '__main__': run()": every invocation of the driver is a
\* process of its own, with the sys.argv it is given and the settings as
\* loaded; the files are those the earlier invocation left.  first keeps what
\* the earlier invocation ended with.
next_invocation(a) ==
  [args_start(a.argv0, a.EMCC_STRICT) EXCEPT !.first = a]

\* The driver is invoked again with the same command line and environment.
ArgsAgain ==
  /\ args.pc \in {"exit", "raised", "done"}
  /\ args.first.pc = "none"
  /\ args' = next_invocation(args)
  /\ UNCHANGED <<rsp, notArgs>>

NextArgs ==
  \/ ArgsAgain
  \/ ArgsStart
  \/ ReadResponse
  \/ FindTarget
  \/ ParseArgs
  \/ ApplySettings

SpecArgs == InitArgs /\ [][NextArgs]_vars

\* The driver keeps running: a step that can be taken is taken.
SpecArgsFair == SpecArgs /\ WF_vars(NextArgs)

(***************************************************************************)
(* Properties of the command line (SpecArgs).                              *)
(***************************************************************************)
\* The tokens of a vector with every @file replaced, recursively, by the
\* tokens of the file.
RECURSIVE substituted(_, _)
substituted(files, v) ==
  IF v = <<>> THEN <<>>
  ELSE (IF Head(v)[1] = "@"
        THEN substituted(files, files[Head(v)[2]].tokens)
        ELSE <<Head(v)>>) \o substituted(files, Tail(v))

\* C11: once the response files are expanded, sys.argv is the original vector
\* with every @F replaced in place by the tokens of F, and run() holds the
\* configuration it derives when those tokens are given on the command line.
C11_ExpansionEquivalent ==
  args.pc = "parse"
    => LET direct == substituted(rsp, args.argv0)
       IN /\ args.EMCC_CXX = (\E k \in 1..Len(direct) : direct[k] = <<"--emscripten-cxx">>)
          /\ args.argv = << <<"emcc">> >>
                           \o SelectSeq(direct, LAMBDA a : a # <<"--emscripten-cxx">>)

\* The value of the last -s change of a setting on the command line, or "None".
last_change(setting) ==
  LET ks == {k \in 1..Len(args.settings_changes) : args.settings_changes[k][1] = setting}
  IN IF ks = {} THEN "None"
     ELSE args.settings_changes[CHOOSE k \in ks : \A j \in ks : j <= k][3]

\* C15, as stated: when STRICT is set, ERROR_ON_UNDEFINED_SYMBOLS and
\* ERROR_ON_MISSING_LIBRARIES are 1 in the final configuration, whatever -s
\* overrides of them the command line has.
C15_StrictLocks ==
  (args.pc = "done" /\ args.Settings.STRICT # 0)
    => /\ args.Settings.ERROR_ON_UNDEFINED_SYMBOLS = 1
       /\ args.Settings.ERROR_ON_MISSING_LIBRARIES = 1

\* C15, amended: when STRICT is set, each of ERROR_ON_UNDEFINED_SYMBOLS and
\* ERROR_ON_MISSING_LIBRARIES is 1 in the final configuration unless the
\* command line has an explicit -s override of it; the last override wins.
C15_StrictIsADefault ==
  (args.pc = "done" /\ args.Settings.STRICT # 0)
    => \A setting \in {"ERROR_ON_UNDEFINED_SYMBOLS", "ERROR_ON_MISSING_LIBRARIES"} :
         args.Settings[setting] = IF last_change(setting) = "None" THEN 1
                                  ELSE IF last_change(setting) = "1" THEN 1 ELSE 0

\* STRICT is set and an explicit override of a forced setting was applied.
C15_Witness ==
  /\ args.pc = "done" /\ args.Settings.STRICT # 0
  /\ last_change("ERROR_ON_UNDEFINED_SYMBOLS") = "0"
  /\ args.Settings.ERROR_ON_UNDEFINED_SYMBOLS = 0
  /\ args.Settings.ERROR_ON_MISSING_LIBRARIES = 1

\* C16: a command line with a value-taking long option spelled option=value,
\* or with -o=X, at any position is rejected: parsing never completes with
\* such a token accepted or left among the arguments of the native compiler.
C16_EqualsFormRejected ==
  (\E k \in 1..Len(args.argv0) :
      /\ Len(args.argv0[k]) = 3 /\ args.argv0[k][2] = "="
      /\ args.argv0[k][1] \in {"--js-opts", "--memory-init-file", "-o"})
    => args.pc \notin {"settings", "done"}

(***************************************************************************)
(* emcc.py run(): the memory initializer and the final emitting, with the  *)
(* content of the files they write                                         *)
(***************************************************************************)
\* The matches of shared.JS.memory_initializer_pattern in the generated
\* script, each the bytes of its group(1): no match, an empty one, one of
\* zeros only, one with a trailing zero, and two matches.
MemoryInitializers ==
  {<<>>, << <<>> >>, << <<0, 0>> >>, << <<1, 0>> >>, << <<1>>, <<1>> >>}

\* The options and settings read from the memory initializer on.  With a
\* memory init file MEM_INIT_METHOD is 1 (emcc.py 1511-1514), otherwise it is
\* 0 or 2.  BINARYEN_METHOD matters under BINARYEN only.
EmitConfigs ==
  LET All == [final_suffix : {"js", "html"},
              memory_init_file : BOOLEAN, MEM_INIT_METHOD : {0, 1, 2},
              separate_asm : BOOLEAN, BINARYEN : BOOLEAN,
              BINARYEN_ASYNC_COMPILATION : BOOLEAN,
              BINARYEN_METHOD : {{"native-wasm"}, {"native-wasm", "asmjs"}},
              EMTERPRETIFY_FILE : BOOLEAN, proxy_to_worker : BOOLEAN,
              output_eol : {"linesep", "other"},
              initializers : MemoryInitializers]
  IN {o \in All :
        /\ o.memory_init_file <=> o.MEM_INIT_METHOD = 1
        /\ ~o.BINARYEN => /\ o.BINARYEN_METHOD = {"native-wasm"}
                          /\ o.BINARYEN_ASYNC_COMPILATION}

\* The files of the build: final (the script in the temporary directory) and
\* those at the output location.
EmitPaths == {"final", "js", "asm.js", "worker.js", "html", "mem", "wasm"}

\* A file is written: its content has the given newlines.
write_file(fs, path, eol) ==
  [fs EXCEPT ![path] = [exists |-> TRUE, eol |-> eol, writes |-> @.writes + 1]]

\* shutil.move(src, dst)
move_file(fs, src, dst) ==
  [fs EXCEPT ![dst] = [exists |-> TRUE, eol |-> fs[src].eol, writes |-> @.writes + 1],
             ![src] = [@ EXCEPT !.exists = FALSE]]

\* shared.try_delete(path), os.unlink(path)
unlink(fs, path) == [fs EXCEPT ![path] = [@ EXCEPT !.exists = FALSE]]

\* tools.line_endings.convert_line_endings_in_file(f, os.linesep, output_eol)
convert_line_endings_in_file(fs, path, to_eol) ==
  [fs EXCEPT ![path] = [@ EXCEPT !.eol = to_eol]]

\* class ScriptSource: src and inline, "None" and <<>> when not set.  The
\* inline script is the sequence of its steps, outermost first: <<"await", f>>
\* fetches f and runs the rest in the onload handler, <<"start", f>> sends
\* the request for f and goes on, <<"inject", f>> appends a script element
\* with src f and <<"worker_or_inject", f>> runs f in a worker or, with
\* noProxy, appends the script element.
ScriptSource == [src |-> "None", inline |-> <<>>]

un_src(script) ==
  IF script.src = "None" THEN script
  ELSE [src |-> "None", inline |-> << <<"inject", script.src>> >>]

replacement(script) ==
  IF script.src # "None" THEN [tag |-> "src", src |-> script.src, inline |-> <<>>]
  ELSE [tag |-> "inline", src |-> "None", inline |-> script.inline]

inline_wrap(script, step) ==
  LET u == un_src(script) IN [u EXCEPT !.inline = <<step>> \o u.inline]

\* generate_html that references the wasm binary nowhere.
generate_html_without_wasm(o, memory_init_file) ==
  LET s0 == IF o.proxy_to_worker
            THEN [ScriptSource EXCEPT !.inline = << <<"worker_or_inject", "js">> >>]
            ELSE [ScriptSource EXCEPT !.src = "js"]
      s1 == IF o.EMTERPRETIFY_FILE THEN inline_wrap(s0, <<"await", "emterpreter">>) ELSE s0
      s2 == IF memory_init_file THEN inline_wrap(s1, <<"start", "mem">>) ELSE s1
      s3 == IF ~o.separate_asm \/ (o.BINARYEN /\ "asmjs" \notin o.BINARYEN_METHOD)
            THEN s2 ELSE inline_wrap(s2, <<"await", "asm.js">>)
  IN replacement(s3)

\* generate_html(target, options, ...): the script of the harness document;
\* memory_init_file is options.memory_init_file at the time of the call.
generate_html(o, memory_init_file) ==
  LET s0 == IF o.proxy_to_worker
            THEN [ScriptSource EXCEPT !.inline = << <<"worker_or_inject", "js">> >>]
            ELSE [ScriptSource EXCEPT !.src = "js"]
      s1 == IF o.EMTERPRETIFY_FILE THEN inline_wrap(s0, <<"await", "emterpreter">>) ELSE s0
      s2 == IF memory_init_file THEN inline_wrap(s1, <<"start", "mem">>) ELSE s1
      s3 == IF ~o.separate_asm \/ (o.BINARYEN /\ "asmjs" \notin o.BINARYEN_METHOD)
            THEN s2 ELSE inline_wrap(s2, <<"await", "asm.js">>)
      s4 == IF o.BINARYEN /\ ~o.BINARYEN_ASYNC_COMPILATION
            THEN inline_wrap(s3, <<"await", "wasm">>) ELSE s3
  IN replacement(s4)

emit_start(o) ==
  [pc |-> "memory_initializer", files |-> [[p \in EmitPaths |->
                                                [exists |-> FALSE, eol |-> "none",
                                                 writes |-> 0]]
                                             EXCEPT !["final"] = [exists |-> TRUE,
                                                                  eol |-> "linesep",
                                                                  writes |-> 1]],
   memory_init_file |-> o.memory_init_file, meminit |-> "unchanged",
   native_eols |-> <<>>, script |-> [tag |-> "none", src |-> "None", inline |-> <<>>]]

InitEmit ==
  /\ eopt \in EmitConfigs
  /\ emit = emit_start(eopt)
  /\ Idle("emit")

\* "while membytes and membytes[-1] == 0: membytes.pop()"
RECURSIVE trim(_)
trim(membytes) ==
  IF membytes # <<>> /\ membytes[Len(membytes)] = 0
  THEN trim(SubSeq(membytes, 1, Len(membytes) - 1))
  ELSE membytes

\* repl(m) for one match s: the files after it and what replaces the match.
repl_without_trim_check(e, o, s) ==
  IF Len(s) = 0 THEN [e EXCEPT !.meminit = "nothing"]
  ELSE IF ~e.memory_init_file THEN [e EXCEPT !.meminit = "string_literal"]
  ELSE [e EXCEPT !.files = write_file(e.files, "mem", "binary"),
                 !.meminit = "file"]

repl(e, o, s) ==
  IF Len(s) = 0 THEN [e EXCEPT !.meminit = "nothing"]
  ELSE IF trim(s) = <<>> THEN [e EXCEPT !.meminit = "nothing"]
  ELSE IF ~e.memory_init_file THEN [e EXCEPT !.meminit = "string_literal"]
  ELSE [e EXCEPT !.files = write_file(e.files, "mem", "binary"),
                 !.meminit = "file"]

\* Block 'memory initializer': "re.sub(pattern, repl, src, count=1)" calls
\* repl for the first match only.
EmitMemoryInitializer ==
  /\ emit.pc = "memory_initializer"
  /\ LET e1 == [emit EXCEPT !.files = unlink(emit.files, "mem")]
         e2 == IF eopt.initializers = <<>> THEN e1
               ELSE repl(e1, eopt, eopt.initializers[1])
     IN emit' = IF eopt.MEM_INIT_METHOD > 0
                THEN [e2 EXCEPT !.pc = "separate_asm",
                                !.files = write_file(e2.files, "final", "linesep")]
                ELSE [emit EXCEPT !.pc = "separate_asm"]
  /\ UNCHANGED <<eopt, notEmit>>

\* Block 'final emitting': separate_asm_js(final, asm_target)
EmitSeparateAsm ==
  /\ emit.pc = "separate_asm"
  /\ \E ok \in BOOLEAN :
       emit' = IF ~(eopt.separate_asm \/ eopt.BINARYEN)
               THEN [emit EXCEPT !.pc = "binaryen"]
               ELSE IF ~ok THEN [emit EXCEPT !.pc = "raised"]
               ELSE [emit EXCEPT !.pc = "binaryen",
                       !.files = write_file(write_file(emit.files, "asm.js", "linesep"),
                                            "final", "linesep"),
                       !.native_eols = Append(@, "asm.js")]
  /\ UNCHANGED <<eopt, notEmit>>

\* do_binaryen(final, target, asm_target, options, memfile, ...): the memory
\* init file goes into the wasm binary when no method needs it at run time.
do_binaryen(e, o) ==
  LET import_mem_init == /\ e.memory_init_file /\ e.files["mem"].exists
                         /\ "asmjs" \notin o.BINARYEN_METHOD
      e1 == [e EXCEPT !.files = write_file(e.files, "wasm", "binary")]
  IN IF import_mem_init
     THEN [e1 EXCEPT !.files = unlink(e1.files, "mem"), !.memory_init_file = FALSE]
     ELSE e1

EmitBinaryen ==
  /\ emit.pc = "binaryen"
  /\ \E ok \in BOOLEAN :
       emit' = IF ~eopt.BINARYEN THEN [emit EXCEPT !.pc = "move"]
               ELSE IF ~ok THEN [emit EXCEPT !.pc = "raised"]
               ELSE [do_binaryen(emit, eopt) EXCEPT !.pc = "move"]
  /\ UNCHANGED <<eopt, notEmit>>

\* "shutil.move(final, js_target)"
EmitMove ==
  /\ emit.pc = "move"
  /\ emit' = [emit EXCEPT !.pc = "target",
                          !.files = move_file(emit.files, "final", "js"),
                          !.native_eols = Append(@, "js")]
  /\ UNCHANGED <<eopt, notEmit>>

\* generate_worker_js(target, js_target, target_basename): the compiler's
\* output moves to the .worker.js file and target gets the proxy script.
generate_worker_js(fs) ==
  write_file(move_file(fs, "js", "worker.js"), "js", "linesep")

\* generate_html for an html target (its content is converted to output_eol
\* before it is written), generate_worker_js for a script target of a
\* proxied build.
EmitTarget ==
  /\ emit.pc = "target"
  /\ emit' = IF eopt.final_suffix = "html"
             THEN [emit EXCEPT !.pc = "native_eols",
                               !.script = generate_html(eopt, emit.memory_init_file),
                               !.files = write_file(emit.files, "html", eopt.output_eol)]
             ELSE IF eopt.proxy_to_worker
             THEN [emit EXCEPT !.pc = "native_eols",
                               !.files = generate_worker_js(emit.files)]
             ELSE [emit EXCEPT !.pc = "native_eols"]
  /\ UNCHANGED <<eopt, notEmit>>

\* "for f in generated_text_files_with_native_eols: convert_line_endings_in_file"
RECURSIVE convert_all(_, _, _)
convert_all(fs, paths, to_eol) ==
  IF paths = <<>> THEN fs
  ELSE convert_all(convert_line_endings_in_file(fs, Head(paths), to_eol),
                   Tail(paths), to_eol)

EmitNativeEols ==
  /\ emit.pc = "native_eols"
  /\ emit' = [emit EXCEPT !.pc = "done",
                          !.files = convert_all(emit.files, emit.native_eols,
                                                eopt.output_eol)]
  /\ UNCHANGED <<eopt, notEmit>>

NextEmit ==
  \/ EmitMemoryInitializer
  \/ EmitSeparateAsm
  \/ EmitBinaryen
  \/ EmitMove
  \/ EmitTarget
  \/ EmitNativeEols

SpecEmit == InitEmit /\ [][NextEmit]_vars

(***************************************************************************)
(* Properties of the emitted files                                         *)
(***************************************************************************)
\* The artifacts the main script needs at run time before it executes.
fetched_first ==
  (IF eopt.EMTERPRETIFY_FILE THEN {"emterpreter"} ELSE {})
  \cup (IF emit.memory_init_file THEN {"mem"} ELSE {})
  \cup (IF eopt.separate_asm /\ ~(eopt.BINARYEN /\ "asmjs" \notin eopt.BINARYEN_METHOD)
        THEN {"asm.js"} ELSE {})
  \cup (IF eopt.BINARYEN /\ ~eopt.BINARYEN_ASYNC_COMPILATION THEN {"wasm"} ELSE {})

\* The step of the inline script that brings in the main script.
inject_at ==
  CHOOSE k \in 1..Len(emit.script.inline) :
    emit.script.inline[k][1] \in {"inject", "worker_or_inject"}

\* The inline script has the step before it brings in the main script.
before_inject(step) ==
  \E k \in 1..(inject_at - 1) : emit.script.inline[k] = step

\* C17: the harness document references the main script by src only when no
\* artifact has to be fetched first; otherwise the script is inline and the
\* main script is injected in the completion handler of the fetch of each
\* such artifact.
C17_InjectAfterEveryFetch ==
  emit.script.tag # "none"
    => /\ emit.script.tag = "src" => fetched_first = {}
       /\ fetched_first # {}
            => /\ emit.script.tag = "inline"
               /\ \A a \in fetched_first : before_inject(<<"await", a>>)

\* C17, amended: as above for the emterpreter file, the separate asm.js code
\* and the synchronously needed wasm binary; the request for the memory
\* initializer is sent before the main script is injected, and is not awaited.
C17_InjectAfterFetchOrStart ==
  emit.script.tag # "none"
    => /\ emit.script.tag = "src" => fetched_first = {}
       /\ fetched_first # {}
            => /\ emit.script.tag = "inline"
               /\ \A a \in fetched_first \ {"mem"} : before_inject(<<"await", a>>)
               /\ "mem" \in fetched_first
                    => /\ before_inject(<<"start", "mem">>)
                       /\ ~before_inject(<<"await", "mem">>)

\* A harness document was written for a build that fetches the memory
\* initializer and the wasm binary.
C17_Witness ==
  /\ emit.pc = "done" /\ eopt.final_suffix = "html"
  /\ {"mem", "wasm"} \subseteq fetched_first
  /\ emit.script.tag = "inline"
  /\ emit.files["html"].exists

\* The first match of the memory initializer pattern was handled and its
\* bytes, trailing zeros dropped, are none.
empty_initializer ==
  /\ emit.pc # "memory_initializer"
  /\ eopt.MEM_INIT_METHOD > 0
  /\ eopt.initializers # <<>>
  /\ trim(eopt.initializers[1]) = <<>>

\* C18: target.mem is written at most once per build and only for a build
\* with a memory init file; when the initializer is empty after its trailing
\* zeros are dropped, target.mem is not written and the initializer is
\* emitted as the string literal in the script.
C18_EmptyUsesInline ==
  /\ emit.files["mem"].writes <= 1
  /\ emit.files["mem"].writes > 0 => eopt.memory_init_file
  /\ empty_initializer
       => emit.files["mem"].writes = 0 /\ emit.meminit = "string_literal"

\* C18, amended: as above, but for an empty initializer nothing is emitted at
\* all: the match is replaced by the empty string, with or without a memory
\* init file.
C18_EmptyEmitsNothing ==
  /\ emit.files["mem"].writes <= 1
  /\ emit.files["mem"].writes > 0 => eopt.memory_init_file
  /\ empty_initializer
       => emit.files["mem"].writes = 0 /\ emit.meminit = "nothing"

\* A build with a memory init file whose initializer holds zeros only went
\* through the memory initializer stage.
C18_Witness ==
  /\ emit.pc = "done" /\ eopt.memory_init_file
  /\ eopt.initializers = << <<0, 0>> >>
  /\ emit.meminit = "nothing"
  /\ ~emit.files["mem"].exists

\* C19: when the build is complete, every text file it generated (the main
\* script, the separate asm.js file, the worker script of a proxied build and
\* the harness document) has the newlines of options.output_eol.
C19_EveryTextFileNormalized ==
  emit.pc = "done"
    => \A p \in {"js", "asm.js", "worker.js", "html"} :
         emit.files[p].exists => emit.files[p].eol = eopt.output_eol

C21_SequentialOnWindows ==
  LET n == Len(build.cmds)
      sequential == build.windows \/ n <= 1 \/ build.num_cores <= 1
      running == {j \in 1..n : build.cmds[j] = "running"}
  IN n > 0
       => /\ sequential
               => /\ Cardinality(running) <= 1
                  /\ \A k \in 1..n : build.cmds[k] # "pending"
                       => \A j \in 1..(k - 1) : build.cmds[j] = "ok"
          /\ build.cores > 1 => ~sequential
          /\ (build.pc = "create_lib" \/ "create_lib" \in spawned_kinds)
               => \A k \in 1..n : build.cmds[k] = "ok"

\* On Windows with two cores, a batch of two commands has run and
\* run_commands has returned.
C21_Witness ==
  /\ build.windows /\ build.num_cores = 2 /\ Len(build.cmds) = 2
  /\ "create_lib" \in spawned_kinds

needed_symbols ==
  UNION {calc.symbolses[k].undefs : k \in 1..Len(calc.symbolses)}
  \ UNION {calc.symbolses[k].defs : k \in 1..Len(calc.symbolses)}

\* C23: when the selection loop considers a registered module that is neither
\* forced nor always included (and not included yet), it includes the module
\* if and only if some needed symbol the module provides is provided by no
\* module included before it.
C23_ResidualDecides ==
  [][(calc.pc = "select" /\ calc.i <= Len(system_libs(csettings)))
       => LET lib == system_libs(csettings)[calc.i]
              provided == UNION {system_libs_map(csettings)[n].symbols :
                                   n \in calc.already_included}
              residual == (needed_symbols \cap lib.symbols) \ provided
          IN (/\ lib.shortname \notin force_include(cenv, csettings)
              /\ lib.shortname \notin always_include(csettings)
              /\ lib.shortname \notin calc.already_included)
               => (lib.shortname \in calc'.already_included <=> residual # {})]_vars

\* The modules reached from the given ones along declared dependencies.
RECURSIVE deps_closure(_)
deps_closure(names) ==
  LET m == system_libs_map(csettings)
      more == names \cup UNION {Range(m[n].deps) : n \in names}
  IN IF more = names THEN names ELSE deps_closure(more)

\* C24: whenever calculate completes, every module of the always-include set
\* is included, whatever the inputs and the values of EMCC_FORCE_STDLIBS and
\* EMCC_ONLY_FORCED_STDLIBS.
C24_AlwaysIncluded ==
  calc.pc = "done" => always_include(csettings) \subseteq calc.already_included

\* C24, amended: that holds when EMCC_ONLY_FORCED_STDLIBS is not set.  When
\* it is set, the included modules are the forced ones and their
\* dependencies, so an always-include module is included only if it is among
\* those.
C24_AlwaysIncludedUnlessOnlyForced ==
  calc.pc = "done"
    => IF ~cenv.only_forced
       THEN always_include(csettings) \subseteq calc.already_included
       ELSE calc.already_included = deps_closure(force_include(cenv, csettings))

\* A resolution with EMCC_ONLY_FORCED_STDLIBS and a forced library completed
\* and left an always-include module out.
C24_Witness ==
  /\ calc.pc = "done"
  /\ cenv.only_forced /\ force_include(cenv, csettings) # {}
  /\ calc.already_included # {}
  /\ ~(always_include(csettings) \subseteq calc.already_included)

\* C25: the output of a completed resolution is closed under declared
\* dependencies, transitively, and has no duplicates: no file is listed twice
\* and no library is built twice, also when included modules share a
\* dependency or a module needed for its symbols was reached as a dependency.
C25_ClosedAndDuplicateFree ==
  calc.pc = "done"
    => /\ deps_closure(calc.already_included) = calc.already_included
       /\ \A j, k \in 1..Len(calc.libs_to_link) :
            calc.libs_to_link[j].file = calc.libs_to_link[k].file => j = k
       /\ \A j, k \in 1..Len(calc.creates) :
            calc.creates[j] = calc.creates[k] => j = k
       /\ \A n \in calc.already_included :
            \E k \in 1..Len(calc.libs_to_link) :
              calc.libs_to_link[k].file = cache_name(system_libs_map(csettings)[n],
                                                     csettings)

\* libc was reached as a dependency of the forced libc++ and is needed for a
\* symbol of the inputs as well.
C25_Witness ==
  /\ calc.pc = "done"
  /\ cenv.force = {<<"libc++">>} /\ ~cenv.only_forced
  /\ "printf" \in needed_symbols
  /\ {<<"libc++">>, <<"libc++abi">>, <<"libc">>, <<"libcompiler_rt">>}
       \subseteq calc.already_included

\* C26: the soft-dependency pass ends for every hint table, also one whose
\* entries imply each other, having handled no entry twice; after it, for
\* every entry whose symbol the scanned files leave undefined, the symbols it
\* implies are among the undefined symbols and among the exports.
C26_HintsClosed ==
  calc.pc \in {"registry", "select", "done", "error"}
    => LET undefs == UNION {calc.symbolses[k].undefs : k \in 1..Len(calc.symbolses)}
       IN /\ calc.handled = Cardinality(calc.added)
          /\ calc.added \subseteq DOMAIN cenv.deps_info
          /\ \A ident \in DOMAIN cenv.deps_info :
               ident \in undefs
                 => /\ ident \in calc.added
                    /\ cenv.deps_info[ident] \subseteq undefs
                    /\ cenv.deps_info[ident] \subseteq calc.exported

\* The pass ran on a table whose two entries imply each other, and handled
\* both.
C26_Witness ==
  /\ calc.pc = "done"
  /\ DOMAIN cenv.deps_info = {"SDL_Init", "SDL_Quit"}
  /\ "SDL_Init" \in cenv.deps_info["SDL_Quit"]
  /\ "SDL_Quit" \in cenv.deps_info["SDL_Init"]
  /\ calc.added = {"SDL_Init", "SDL_Quit"}
  /\ calc.handled = 2

\* C27: in the list a completed resolution returns, every static archive
\* comes after every library that is not one, except that libc++abi, when it
\* is included, is the last library of the list.
C27_ArchivesLastAbiVeryLast ==
  calc.pc = "done"
    => LET l == calc.libs_to_link
           is_archive(x) == x.file[Len(x.file)] = ".a"
           is_libcxxabi(x) == x.file[1] = "libc++abi"
       IN /\ \A j, k \in 1..Len(l) :
               (j < k /\ is_archive(l[j]) /\ ~is_libcxxabi(l[j]))
                 => (is_archive(l[k]) \/ is_libcxxabi(l[k]))
          /\ (\E k \in 1..Len(l) : is_libcxxabi(l[k])) => is_libcxxabi(l[Len(l)])

(***************************************************************************)
(* C28: the invocations one call of flush performs.  The pass list of an  *)
(* invocation is read without what run_passes itself adds to it ("asm"    *)
(* in front, "minifyWhitespace" behind).                                   *)
(***************************************************************************)
Bridging == {"emitJSON", "receiveJSON"}

\* The pass lists handed to the optimizer by a flush of the present state.
flush_invocations ==
  LET once == flush(optimizer)
  IN [i \in 1..(Len(once.final) - Len(final)) |->
        FilterSeq(once.final[Len(final) + i].passes, QueuedPasses \cup Bridging)]

\* The invocations l cut q into maximal runs of one execution mode, bridged
\* at every seam, and give q back once the bridging passes are removed.
partitions_into_runs(l, q) ==
  LET sm == jsopt.source_map
      strip(c) == FilterSeq(c, QueuedPasses)
      seams == {k \in 1..(Len(q) - 1) : use_native(q[k], sm) # use_native(q[k + 1], sm)}
      cat[i \in 0..Len(l)] == IF i = 0 THEN <<>> ELSE cat[i - 1] \o strip(l[i])
  IN /\ Len(l) = (IF q = <<>> THEN 0 ELSE Cardinality(seams) + 1)
     /\ \A i \in 1..Len(l) :
          /\ strip(l[i]) # <<>>
          /\ \A a, b \in Range(strip(l[i])) : use_native(a, sm) = use_native(b, sm)
          /\ (l[i][1] = "receiveJSON") <=> (i > 1)
          /\ (l[i][Len(l[i])] = "emitJSON") <=> (i < Len(l))
          /\ Len(l[i]) = Len(strip(l[i])) + (IF i > 1 THEN 1 ELSE 0)
                                          + (IF i < Len(l) THEN 1 ELSE 0)
     /\ cat[Len(l)] = q

\* C28 as stated: every flush performs one invocation per maximal run of one
\* execution mode of the queue, with emitJSON / receiveJSON at every seam, and
\* the invocations without the bridging passes are the original queue.
C28_OneInvocationPerRun ==
  (~jsopt.WASM_BACKEND /\ ~jsopt.raised)
    => partitions_into_runs(flush_invocations, queue)

\* C28, amended: the queue that is partitioned is the queue without the
\* blacklisted passes, and under EMCC_DEBUG=2 a queue of two or more passes is
\* run one pass per invocation, with no bridging pass.
C28_OneInvocationPerRunUnlessDebug2 ==
  (~jsopt.WASM_BACKEND /\ ~jsopt.raised)
    => LET q == FilterSeq(queue, QueuedPasses \ jsopt.blacklist)
           l == flush_invocations
       IN IF jsopt.DEBUG2 /\ Len(q) >= 2
          THEN l = [i \in 1..Len(q) |-> <<q[i]>>]
          ELSE partitions_into_runs(l, q)

\* A flush has run a queue of two execution modes in two bridged invocations.
C28_Witness ==
  /\ ~jsopt.DEBUG2
  /\ queue = <<>>
  /\ Len(final) >= 2
  /\ final[1].just_concat /\ ~final[1].just_split
  /\ final[2].just_split

(***************************************************************************)
(* C29: the order of the passes one build executes.                        *)
(***************************************************************************)
\* The positions <<k, i>> (invocation, index) at which pass p was executed.
executed_at(p) ==
  UNION {{<<k, i>> : i \in {j \in DOMAIN final[k].passes : final[k].passes[j] = p}} :
           k \in DOMAIN final}

precedes(a, b) == a[1] < b[1] \/ (a[1] = b[1] /\ a[2] < b[2])

\* Whether invocation k ran on the saved original of a swappable build.
on_original(k) == jsopt.original_from > 0 /\ k > jsopt.original_from

\* C29 as stated: in the sequence of the passes a build has executed,
\* eliminateDeadFuncs comes before minifyNames, minifyNames comes before
\* minifyWhitespace and cleanup, and every "last" pass comes after registerize /
\* registerizeHarder.
C29_PassOrder ==
  /\ \A a \in executed_at("eliminateDeadFuncs"), b \in executed_at("minifyNames") :
       precedes(a, b)
  /\ \A a \in executed_at("minifyNames"),
        b \in executed_at("minifyWhitespace") \cup executed_at("cleanup") :
       precedes(a, b)
  /\ \A a \in executed_at("registerize") \cup executed_at("registerizeHarder"),
        b \in executed_at("last") :
       precedes(a, b)

\* C29, amended: minifyNames comes before minifyWhitespace and cleanup among
\* the passes run on one file (a swappable emterpreted build minifies and
\* finalizes the saved original after it has finalized the emterpreted file);
\* the other two orders hold in the whole sequence.
C29_PassOrderPerFile ==
  /\ \A a \in executed_at("eliminateDeadFuncs"), b \in executed_at("minifyNames") :
       precedes(a, b)
  /\ \A a \in executed_at("minifyNames"),
        b \in executed_at("minifyWhitespace") \cup executed_at("cleanup") :
       (on_original(a[1]) = on_original(b[1])) => precedes(a, b)
  /\ \A a \in executed_at("registerize") \cup executed_at("registerizeHarder"),
        b \in executed_at("last") :
       precedes(a, b)

\* A swappable emterpreted build has executed dead-function elimination and
\* registerization, then name minification and a finalizing invocation with
\* both cleanup passes on the emterpreted file and on the saved original.
C29_Witness ==
  /\ executed_at("eliminateDeadFuncs") # {}
  /\ executed_at("registerize") # {}
  /\ \A f \in BOOLEAN :
       \A p \in {"minifyNames", "last", "minifyWhitespace", "cleanup"} :
         \E a \in executed_at(p) : on_original(a[1]) = f

(***************************************************************************)
(* C30: the derived configuration values after settings resolution.       *)
(***************************************************************************)
\* C30: no step of the js opts block or of final emitting changes a derived
\* configuration value (FINALIZE_ASM_JS, ASM_JS, the debug level): each keeps
\* the value settings resolution gave it.
C30_DerivedValuesUnchanged ==
  [][/\ jsopt'.FINALIZE_ASM_JS = jsopt.FINALIZE_ASM_JS
     /\ jsopt'.ASM_JS = jsopt.ASM_JS
     /\ jsopt'.debug_level = jsopt.debug_level]_vars

(***************************************************************************)
(* The order of the linker inputs (emcc.py 701-773, 1292-1316, 1336), run *)
(* on the variables of the command line.  An argument is the sequence of  *)
(* the parts arg.split(',') gives; an index is the pair <<p, q>> that     *)
(* stands for the number p / q, as the float i + flag_index / n is exact  *)
(* to well below 1 / n for every argument vector a process can be given.  *)
(***************************************************************************)
MaxLinkArgs == 3

SUPPORTED_LINKER_FLAGS == {"--start-group", "-(", "--end-group", "-)"}

\* The arguments left in newargs when the inputs are looked for.
LinkArgs ==
  { <<"a.c">>, <<"b.o">>, <<"-O2">>,
    <<"-Wl", "--start-group">>, <<"-Wl", "--end-group", "-rpath", "--start-group">>,
    <<"-Wl", "-(", "-)", "--end-group">> }

\* The index with the sub-flags of one argument in reverse order.
link_flag_index_reversed(i, flag_index, n) == <<i * n + (n - 1 - flag_index), n>>

\* i + float(flag_index) / len(link_flags_to_add)
link_flag_index(i, flag_index, n) == <<i * n + flag_index, n>>

InitLink ==
  /\ rsp = "idle"
  /\ \E n \in 1..MaxLinkArgs : \E newargs \in [1..n -> LinkArgs] :
       args = [pc |-> "find_inputs", newargs |-> newargs, input_files |-> <<>>,
               link_flags |-> <<>>, temp_files |-> <<>>, linker_inputs |-> <<>>]
  /\ Idle("args")

\* The loop over newargs that finds the input files and the linker flags.
\* The Python index of the k-th argument is k - 1.
FindInputs ==
  /\ args.pc = "find_inputs"
  /\ LET newargs == args.newargs
         flags_of(k) ==
           LET link_flags_to_add == Tail(newargs[k])
               n == Len(link_flags_to_add)
               idx == {j \in 1..n : link_flags_to_add[j] \in SUPPORTED_LINKER_FLAGS}
               pick[j \in 0..n] ==
                 IF j = 0 THEN <<>>
                 ELSE IF j \in idx
                      THEN Append(pick[j - 1],
                                  [index |-> link_flag_index(k - 1, j - 1, n),
                                   val |-> link_flags_to_add[j]])
                      ELSE pick[j - 1]
           IN pick[n]
         is_input(k) == newargs[k] \in {<<"a.c">>, <<"b.o">>}
         is_wl(k) == newargs[k][1] = "-Wl"
         found[k \in 0..Len(newargs)] ==
           IF k = 0 THEN [input_files |-> <<>>, link_flags |-> <<>>]
           ELSE IF is_input(k)
                THEN [found[k - 1] EXCEPT !.input_files =
                        Append(@, [index |-> <<k - 1, 1>>, val |-> newargs[k][1]])]
                ELSE IF is_wl(k)
                     THEN [found[k - 1] EXCEPT !.link_flags = @ \o flags_of(k)]
                     ELSE found[k - 1]
         f == found[Len(newargs)]
     IN args' = [args EXCEPT !.pc = "bitcodeize", !.input_files = f.input_files,
                             !.link_flags = f.link_flags]
  /\ UNCHANGED <<rsp, notArgs>>

\* Block 'bitcodeize inputs': a source is compiled to a temporary object, a
\* bitcode file is used as it is; either is listed under the input's index.
Bitcodeize ==
  /\ args.pc = "bitcodeize"
  /\ args' = [args EXCEPT
       !.pc = "decide_link",
       !.temp_files = [k \in 1..Len(args.input_files) |->
          LET e == args.input_files[k]
          IN IF e.val = "a.c" THEN [e EXCEPT !.val = "tmp/a_0.o"] ELSE e]]
  /\ UNCHANGED <<rsp, notArgs>>

\* linker_inputs = [val for _, val in sorted(temp_files + link_flags)]
\* No two entries have the same index, so the order is the order of the indexes.
DecideLink ==
  /\ args.pc = "decide_link"
  /\ LET l == args.temp_files \o args.link_flags
         lt(a, b) == a[1] * b[2] < b[1] * a[2]
         rank(j) == 1 + Cardinality({k \in 1..Len(l) :
                          \/ lt(l[k].index, l[j].index)
                          \/ (~lt(l[j].index, l[k].index) /\ k < j)})
     IN args' = [args EXCEPT
          !.pc = "linked",
          !.linker_inputs = [r \in 1..Len(l) |->
                               l[CHOOSE j \in 1..Len(l) : rank(j) = r].val]]
  /\ UNCHANGED <<rsp, notArgs>>

NextLink == FindInputs \/ Bitcodeize \/ DecideLink

SpecLink == InitLink /\ [][NextLink]_vars

(***************************************************************************)
(* C31: the linker inputs keep the order of the command line.              *)
(***************************************************************************)
\* What argument k of newargs contributes to the link, in written order.
link_part(k) ==
  LET a == args.newargs[k]
  IN IF a = <<"a.c">> THEN <<"tmp/a_0.o">>
     ELSE IF a = <<"b.o">> THEN <<"b.o">>
     ELSE IF a[1] = "-Wl" THEN FilterSeq(Tail(a), SUPPORTED_LINKER_FLAGS)
     ELSE <<>>

\* C31: every supported sub-flag of the -Wl argument with index i has an index
\* in [i, i + 1) that grows with its position in the argument, and the sorted
\* linker inputs are the contributions of the arguments in command-line order,
\* the sub-flags of one argument in their written order.
C31_LinkOrderPreserved ==
  /\ args.pc \notin {"find_inputs"} =>
       \A k \in 1..Len(args.newargs) :
         LET i == k - 1
             mine == FilterSeq(args.link_flags,
                       {e \in Range(args.link_flags) :
                          i * e.index[2] <= e.index[1] /\ e.index[1] < (i + 1) * e.index[2]})
         IN /\ [j \in 1..Len(mine) |-> mine[j].val]
                 = (IF args.newargs[k][1] = "-Wl" THEN link_part(k) ELSE <<>>)
            /\ \A j \in 1..(Len(mine) - 1) :
                 mine[j].index[1] * mine[j + 1].index[2]
                   < mine[j + 1].index[1] * mine[j].index[2]
  /\ args.pc = "linked" =>
       LET cat[k \in 0..Len(args.newargs)] ==
             IF k = 0 THEN <<>> ELSE cat[k - 1] \o link_part(k)
       IN args.linker_inputs = cat[Len(args.newargs)]

\* The link is decided for a command line with an input, then a -Wl argument
\* with two supported sub-flags, then another input.
C31_Witness ==
  /\ args.pc = "linked"
  /\ Len(args.newargs) = 3
  /\ args.newargs[1] = <<"a.c">>
  /\ args.newargs[2] = <<"-Wl", "--end-group", "-rpath", "--start-group">>
  /\ args.newargs[3] = <<"b.o">>
  /\ args.linker_inputs = <<"tmp/a_0.o", "--end-group", "--start-group", "b.o">>

(***************************************************************************)
(* The link-time optimization of block 'post-link' (emcc.py 1441-1486),   *)
(* run on the variables of the build: build.opt_runs lists the pass lists *)
(* llvm_opt is given for the linked module, in order.                     *)
(***************************************************************************)
\* The options block 'post-link' reads.  llvm_opts is the level number
\* LLVM_OPT_LEVEL gives for the optimization level (no --llvm-opts); llvm_lto
\* is 0 when --llvm-lto is absent.
LinkOptConfigs ==
  {o \in [opt_level : 0..3, llvm_opts : 0..3, llvm_lto : 0..3, debug_level : {0, 4},
          ASSERTIONS : BOOLEAN, cfi : BOOLEAN, can_build_standalone : BOOLEAN,
          AUTODEBUG : BOOLEAN, LEAVE_INPUTS_RAW : BOOLEAN] :
     o.llvm_opts = o.opt_level}

InitLinkOpts ==
  /\ bopt \in LinkOptConfigs
  /\ build = [pc |-> "post_link", opt_runs |-> <<>>]
  /\ Idle("build")

\* Block 'post-link', up to the last llvm_opt of the linked module.
LinkTimeOpts ==
  /\ build.pc = "post_link"
  /\ LET o == bopt
         run(runs, c, passes) == IF c THEN Append(runs, passes) ELSE runs
         opts0 == (IF o.debug_level >= 4 THEN <<>> ELSE <<"-strip-debug">>)
                  \o (IF ~o.ASSERTIONS THEN <<"-disable-verify">>
                      ELSE <<"-disable-debug-info-type-map">>)
         r1 == run(<<>>, o.llvm_lto >= 2 /\ o.llvm_opts > 0, <<"-O">>)
         lto == o.can_build_standalone /\ o.llvm_lto # 0 /\ o.llvm_lto # 2
         r2 == run(r1, lto, opts0 \o <<"-internalize", "-std-link-opts">>)
         opts1 == IF lto THEN <<>> ELSE opts0 \o <<"-internalize", "-globaldce">>
         opts2 == opts1 \o (IF o.cfi THEN <<"-lowertypetests">> ELSE <<>>)
         r3 == IF o.AUTODEBUG THEN Append(r2, opts2 \o <<"-S">>)
               ELSE run(r2, Len(opts2) > 0, opts2)
     IN build' = [build EXCEPT !.pc = "emscript",
                               !.opt_runs = IF o.LEAVE_INPUTS_RAW THEN <<>> ELSE r3]
  /\ UNCHANGED <<bopt, notBuild>>

NextLinkOpts == LinkTimeOpts

SpecLinkOpts == InitLinkOpts /\ [][NextLinkOpts]_vars

(***************************************************************************)
(* C32: dead-globals elimination and the optimization level.               *)
(***************************************************************************)
\* C32: -globaldce is among the passes run on the linked module only when the
\* optimization level is at least 1.
C32_GlobalDceOnlyWhenOptimizing ==
  (build.pc = "emscript"
   /\ \E k \in 1..Len(build.opt_runs) : "-globaldce" \in Range(build.opt_runs[k]))
    => bopt.opt_level >= 1

(***************************************************************************)
(* C33: the pass queue when the script is moved to its output path.        *)
(***************************************************************************)
\* C33: when the main script has been moved to its output path, the pass queue
\* is empty: every pass appended during the build was run by some flush.
C33_QueueEmptyAtMove ==
  jsopt.pc = "moved" => queue = <<>>

(***************************************************************************)
(* C34: who names the memory initializer file.                             *)
(***************************************************************************)
\* C34: the harness document requests target.mem, and the main script names
\* it, only if this build wrote target.mem; with an empty initializer neither
\* names the file.
C34_BlobNamedOnlyIfWritten ==
  LET html_names == <<"start", "mem">> \in Range(emit.script.inline)
      script_names == emit.meminit = "file"
  IN /\ (html_names \/ script_names) => emit.files["mem"].writes > 0
     /\ empty_initializer => (~html_names /\ ~script_names)

(***************************************************************************)
(* C35: the expansion of response files ends.                              *)
(***************************************************************************)
\* C35: whenever run() is in the loop that expands response files, it leaves
\* the loop, whatever the arguments and the response files name.
C35_ExpansionTerminates ==
  (args.pc = "response") ~> (args.pc # "response")

(***************************************************************************)
(* The paths of the compiled objects (emcc.py 516-520, 1238-1250,         *)
(* 1292-1296, 1338-1369), run on the variables of the build.  A file name *)
(* is [dir, base]: base is the sequence of the parts of the name that '_' *)
(* separates, without the suffix, so that uniquename appends a part.      *)
(***************************************************************************)
MaxObjInputs == 2

\* Source files: d1/a.c, d2/a.c, d1/b.c and d1/a_0.c.
ObjectInputs ==
  { [dir |-> "d1", base |-> <<"a">>], [dir |-> "d2", base |-> <<"a">>],
    [dir |-> "d1", base |-> <<"b">>], [dir |-> "d1", base |-> <<"a", "0">>] }

\* The command lines: distinct sources, a final suffix that is or is not in
\* JS_CONTAINING_SUFFIXES, -c, -o.  Without -o and -c the target is a.out.js;
\* -c gives final_suffix 'o'.
ObjectConfigs ==
  {o \in [inputs : UNION {[1..n -> ObjectInputs] : n \in 1..MaxObjInputs},
          js : BOOLEAN, has_dash_c : BOOLEAN, specified_target : BOOLEAN] :
     /\ \A j, k \in 1..Len(o.inputs) : j # k => o.inputs[j] # o.inputs[k]
     /\ o.has_dash_c => ~o.js
     /\ (~o.specified_target /\ ~o.has_dash_c) => o.js}

\* uniquename(name): seen_names lists the names in the order they were first
\* seen, so that a name's number is its position less one.
uniquename(seen_names, name) ==
  LET seen == IF name \in Range(seen_names) THEN seen_names
              ELSE Append(seen_names, name)
      n == CHOOSE k \in 1..Len(seen) : seen[k] = name
  IN [seen |-> seen,
      name |-> [name EXCEPT !.base = Append(@, <<"0", "1", "2", "3">>[n])]]

InitObjects ==
  /\ bopt \in ObjectConfigs
  /\ build = [pc |-> "bitcodeize", seen_names |-> <<>>, temp_files |-> <<>>,
              objects |-> <<>>]
  /\ Idle("build")

\* "for i, input_file in input_files: compile_source_file(i, input_file)" with
\* output_file = get_bitcode_file(input_file).
CompileObjects ==
  /\ build.pc = "bitcodeize"
  /\ LET o == bopt
         get_bitcode_path(b, input_file) ==
           IF ~o.js /\ Len(o.inputs) = 1
           THEN [b EXCEPT !.temp_files =
                   Append(@, IF o.specified_target
                             THEN [dir |-> "cwd", base |-> <<"target">>]
                             ELSE input_file)]
           ELSE IF ~o.js /\ o.has_dash_c
           THEN [b EXCEPT !.temp_files = Append(@, input_file)]
           ELSE LET u == uniquename(b.seen_names, input_file)
                IN [b EXCEPT !.seen_names = u.seen,
                             !.temp_files = Append(@, [dir |-> "tmp", base |-> u.name.base])]
         loop[k \in 0..Len(o.inputs)] ==
           IF k = 0 THEN build ELSE get_bitcode_path(loop[k - 1], o.inputs[k])
     IN build' = [loop[Len(o.inputs)] EXCEPT !.pc = "stop_at_bitcode"]
  /\ UNCHANGED <<bopt, notBuild>>

\* "If we were just asked to generate bitcode, stop there": where the object of
\* each input is when the block is left.  Objects that are linked stay where
\* they were compiled to.
MoveObjects ==
  /\ build.pc = "stop_at_bitcode"
  /\ LET o == bopt
         objects ==
           IF o.js THEN build.temp_files
           ELSE IF ~o.specified_target
           THEN [k \in 1..Len(o.inputs) |-> [dir |-> "cwd", base |-> o.inputs[k].base]]
           ELSE IF Len(o.inputs) = 1
           THEN << [dir |-> "cwd", base |-> <<"target">>] >>
           ELSE build.temp_files
     IN build' = [build EXCEPT !.objects = objects,
                               !.pc = IF ~o.js /\ o.specified_target /\ Len(o.inputs) > 1
                                         /\ o.has_dash_c
                                      THEN "raised" ELSE "done"]
  /\ UNCHANGED <<bopt, notBuild>>

NextObjects == CompileObjects \/ MoveObjects

SpecObjects == InitObjects /\ [][NextObjects]_vars

(***************************************************************************)
(* C36: distinct inputs have distinct objects.                             *)
(***************************************************************************)
\* C36: two distinct source inputs of one invocation have distinct object
\* paths, where they are compiled to and where they are left at the end.
C36_ObjectPathsDistinct ==
  /\ \A j, k \in 1..Len(build.temp_files) :
       j # k => build.temp_files[j] # build.temp_files[k]
  /\ build.pc = "done" =>
       \A j, k \in 1..Len(build.objects) : j # k => build.objects[j] # build.objects[k]

(***************************************************************************)
(* C37: simplifyIfs and outline.                                           *)
(***************************************************************************)
\* C37: the passes a build queues and executes hold at most one of simplifyIfs
\* and outline.
C37_NotBothSimplifyIfsAndOutline ==
  LET scheduled(p) == \/ p \in Range(queue) \cup Range(queue_history)
                      \/ executed_at(p) # {}
  IN ~(scheduled("simplifyIfs") /\ scheduled("outline"))

\* The outline pass was executed in a build that would simplify ifs if it
\* did not outline.
C37_Witness ==
  /\ executed_at("outline") # {}
  /\ jsopt.opt_level >= 2 /\ jsopt.SIMPLIFY_IFS /\ jsopt.debug_level = 0
  /\ ~jsopt.BINARYEN

(***************************************************************************)
(* ListenerClient: one caller thread and the connection thread.            *)
(***************************************************************************)
\* The number of messages the caller sends besides the disconnect message.
MaxMessages == 2
\* The number of keep-alive messages the connection thread sends.
MaxKeepAlives == 1

\* The caller's messages are 1..MaxMessages; the two the client creates:
DisconnectMessage == 0
KeepAliveMessage == -1

\* message_queue is a deque: index 1 is its left end.
appendleft(q, m) == <<m>> \o q

\* deque.popleft(): the element at the left end, and the rest.
deque_popleft(q) == [value |-> q[1], rest |-> Tail(q)]

\* deque.pop(): the element at the right end, and the rest.
deque_pop(q) == [value |-> q[Len(q)], rest |-> SubSeq(q, 1, Len(q) - 1)]

\* is_connected: the socket is set and getpeername() succeeds on it.
is_connected == client.socket = "connected" /\ client.peer = "up"

\* The accepted messages written to the socket, without the keep-alives.
written == FilterSeq(client.wire, (1..MaxMessages) \cup {DisconnectMessage})

\* The client after connect() returned True: the socket is connected and the
\* connection thread is about to test its loop condition.
InitClient ==
  /\ client = [message_queue |-> <<>>, close_socket |-> FALSE,
               socket |-> "connected", peer |-> "up", wire |-> <<>>,
               accepted |-> <<>>, next |-> 1, disconnect_called |-> FALSE,
               mpc |-> "idle", message_bytes |-> 0, ret |-> "idle",
               tpc |-> "while", popped |-> 0, readable |-> FALSE]
  /\ Idle("client")

\* The peer goes away: from now on socket calls raise.
PeerGone ==
  /\ client.socket = "connected" /\ client.peer = "up"
  /\ client' = [client EXCEPT !.peer = "gone"]
  /\ UNCHANGED notClient

\* send_message, called by the caller: the test of is_connected.
send_message ==
  /\ client.mpc = "idle" /\ client.next <= MaxMessages
  /\ client' = IF is_connected
               THEN [client EXCEPT !.mpc = "append", !.message_bytes = client.next,
                                   !.ret = "idle", !.next = @ + 1]
               ELSE [client EXCEPT !.next = @ + 1]
  /\ UNCHANGED notClient

\* send_message: the message is accepted and put at the left end of the queue.
send_message_append ==
  /\ client.mpc = "append"
  /\ client' = [client EXCEPT
                  !.message_queue = appendleft(@, client.message_bytes),
                  !.accepted = Append(@, client.message_bytes),
                  !.mpc = client.ret]
  /\ UNCHANGED notClient

\* disconnect: the test of is_connected.
disconnect ==
  /\ client.mpc = "idle" /\ ~client.disconnect_called
  /\ client' = [client EXCEPT !.disconnect_called = TRUE,
                              !.mpc = IF is_connected THEN "disc_send" ELSE "idle"]
  /\ UNCHANGED notClient

\* disconnect: send_message(msg) with the disconnect message.
disconnect_send ==
  /\ client.mpc = "disc_send"
  /\ client' = IF is_connected
               THEN [client EXCEPT !.mpc = "append", !.message_bytes = DisconnectMessage,
                                   !.ret = "disc_close"]
               ELSE [client EXCEPT !.mpc = "disc_close"]
  /\ UNCHANGED notClient

\* disconnect: close_socket = True.
disconnect_close ==
  /\ client.mpc = "disc_close"
  /\ client' = [client EXCEPT !.close_socket = TRUE, !.mpc = "join"]
  /\ UNCHANGED notClient

\* disconnect: handle_connection_thread.join().
disconnect_join ==
  /\ client.mpc = "join" /\ client.tpc = "exited"
  /\ client' = [client EXCEPT !.mpc = "idle"]
  /\ UNCHANGED notClient

\* handle_connection: while self.is_connected.
handle_while ==
  /\ client.tpc = "while"
  /\ client' = [client EXCEPT !.tpc = IF is_connected THEN "select" ELSE "exited"]
  /\ UNCHANGED notClient

\* handle_connection: select() returns with the socket readable or not.
handle_select ==
  /\ client.tpc = "select"
  /\ \E r \in BOOLEAN :
       client' = [client EXCEPT !.readable = r \/ client.peer = "gone",
                                !.tpc = "drain"]
  /\ UNCHANGED notClient

\* handle_connection: the test of the inner loop and message_queue.pop().
handle_pop ==
  /\ client.tpc = "drain"
  /\ client' = IF Len(client.message_queue) > 0
               THEN LET p == deque_pop(client.message_queue)
                    IN [client EXCEPT !.message_queue = p.rest,
                                      !.popped = p.value, !.tpc = "sendall"]
               ELSE [client EXCEPT !.tpc = "recv"]
  /\ UNCHANGED notClient

\* handle_connection: socket.sendall(message_bytes).
handle_sendall ==
  /\ client.tpc = "sendall"
  /\ client' = IF client.peer = "up"
               THEN [client EXCEPT !.wire = Append(@, client.popped),
                                   !.tpc = "drain"]
               ELSE [client EXCEPT !.tpc = "except"]
  /\ UNCHANGED notClient

\* handle_connection: recv on the readable socket; no delegate is set.
handle_recv ==
  /\ client.tpc = "recv"
  /\ client' = IF client.readable /\ client.peer = "gone"
               THEN [client EXCEPT !.tpc = "except"]
               ELSE [client EXCEPT !.tpc = "keepalive"]
  /\ UNCHANGED notClient

\* handle_connection: the keep-alive message, sent when the timeout passed.
handle_keepalive ==
  /\ client.tpc = "keepalive"
  /\ \E timeout \in {FALSE, Len(client.wire) - Len(written) < MaxKeepAlives} :
       client' = IF ~timeout THEN [client EXCEPT !.tpc = "check"]
                 ELSE IF client.peer = "up"
                 THEN [client EXCEPT !.wire = Append(@, KeepAliveMessage),
                                     !.tpc = "check"]
                 ELSE [client EXCEPT !.tpc = "except"]
  /\ UNCHANGED notClient

\* handle_connection: the close of the socket at the end of an iteration.
handle_close ==
  /\ client.tpc = "check"
  /\ client' = IF client.close_socket /\ Len(client.message_queue) = 0
               THEN [client EXCEPT !.socket = "None", !.tpc = "exited"]
               ELSE [client EXCEPT !.tpc = "while"]
  /\ UNCHANGED notClient

\* handle_connection: the handlers of ConnectionResetError and OSError.
handle_except ==
  /\ client.tpc = "except"
  /\ client' = [client EXCEPT !.socket = "None", !.tpc = "exited"]
  /\ UNCHANGED notClient

NextClient ==
  \/ PeerGone
  \/ send_message \/ send_message_append
  \/ disconnect \/ disconnect_send \/ disconnect_close \/ disconnect_join
  \/ handle_while \/ handle_select \/ handle_pop \/ handle_sendall
  \/ handle_recv \/ handle_keepalive \/ handle_close \/ handle_except

SpecClient == InitClient /\ [][NextClient]_vars

(***************************************************************************)
(* C38: accepted messages reach the socket in order, before the close.     *)
(***************************************************************************)
IsPrefix(s, t) == Len(s) <= Len(t) /\ SubSeq(t, 1, Len(s)) = s

\* Once the connection thread ended, nothing is left in the queue and every
\* accepted message was written.
all_written_at_exit ==
  client.tpc = "exited" =>
    client.message_queue = <<>> /\ written = client.accepted

KB64 == 65536
MB16 == 16 * 1024 * 1024

\* The memory settings after the -s arguments were applied, in bytes, and
\* the settings that choose a wasm build. RELOCATABLE and USE_PTHREADS are
\* off.
MemoryConfigs ==
  [TOTAL_MEMORY : {KB64, MB16 \div 2, MB16 - KB64, MB16, MB16 + 1, MB16 + KB64,
                   2 * MB16},
   TOTAL_STACK : {5 * 1024 * 1024, MB16, 2 * MB16, 2 * MB16 + KB64},
   BINARYEN_MEM_MAX : {-1, -2, 0, KB64 - 1, KB64, 4 * MB16},
   SPLIT_MEMORY : {0, 4 * 1024 * 1024, 5 * 1024 * 1024, 6 * 1024 * 1024,
                   8 * 1024 * 1024, MB16, 2 * MB16, 3 * MB16, 4 * MB16},
   WASM : BOOLEAN, BINARYEN : BOOLEAN, WASM_BACKEND : BOOLEAN]

\* a & b of two integers that are not negative
RECURSIVE BitAnd(_, _)
BitAnd(a, b) ==
  IF a = 0 \/ b = 0 THEN 0
  ELSE (a % 2) * (b % 2) + 2 * BitAnd(a \div 2, b \div 2)

\* The two asserts on SPLIT_MEMORY, when it is set.
split_memory_asserts(s) ==
  /\ s.SPLIT_MEMORY > s.TOTAL_STACK
  /\ BitAnd(s.SPLIT_MEMORY, s.SPLIT_MEMORY - 1) = 0

\* The asserts on TOTAL_MEMORY, without the comparison with TOTAL_STACK.
total_memory_asserts_without_stack(s, binaryen) ==
  /\ s.TOTAL_MEMORY >= 16 * 1024 * 1024
  /\ IF binaryen THEN s.TOTAL_MEMORY % 65536 = 0
     ELSE s.TOTAL_MEMORY % (16 * 1024 * 1024) = 0
  /\ s.BINARYEN_MEM_MAX = -1 \/ s.BINARYEN_MEM_MAX % 65536 = 0

\* The asserts on TOTAL_MEMORY and BINARYEN_MEM_MAX.
total_memory_asserts(s, binaryen) ==
  /\ s.TOTAL_MEMORY >= 16 * 1024 * 1024
  /\ IF binaryen THEN s.TOTAL_MEMORY % 65536 = 0
     ELSE s.TOTAL_MEMORY % (16 * 1024 * 1024) = 0
  /\ s.TOTAL_MEMORY >= s.TOTAL_STACK
  /\ s.BINARYEN_MEM_MAX = -1 \/ s.BINARYEN_MEM_MAX % 65536 = 0

\* run() after the -s settings were applied.
InitMemory ==
  /\ bopt \in MemoryConfigs
  /\ build = [pc |-> "split_memory", BINARYEN |-> bopt.BINARYEN, spawned |-> <<>>]
  /\ Idle("build")

\* "if shared.Settings.SPLIT_MEMORY:" and, further down, WASM as a synonym
\* of BINARYEN.
MemorySplit ==
  /\ build.pc = "split_memory"
  /\ build' = IF bopt.SPLIT_MEMORY # 0 /\ ~split_memory_asserts(bopt)
              THEN [build EXCEPT !.pc = "failed"]
              ELSE [build EXCEPT !.pc = "total_memory",
                                 !.BINARYEN = @ \/ bopt.WASM]
  /\ UNCHANGED <<bopt, notBuild>>

\* The asserts on TOTAL_MEMORY, and the settings of a wasm build after them.
MemoryTotal ==
  /\ build.pc = "total_memory"
  /\ LET binaryen == build.BINARYEN \/ bopt.WASM_BACKEND
     IN build' = IF ~total_memory_asserts(bopt, build.BINARYEN)
                 THEN [build EXCEPT !.pc = "failed"]
                 ELSE IF binaryen /\ bopt.SPLIT_MEMORY # 0
                 THEN [build EXCEPT !.pc = "failed", !.BINARYEN = binaryen]
                 ELSE [build EXCEPT !.pc = "bitcodeize", !.BINARYEN = binaryen]
  /\ UNCHANGED <<bopt, notBuild>>

\* The compile loop: the front end is invoked on the input.
MemoryCompile ==
  /\ build.pc = "bitcodeize"
  /\ build' = [build EXCEPT !.pc = "compiled", !.spawned = <<"frontend">>]
  /\ UNCHANGED <<bopt, notBuild>>

NextMemory == MemorySplit \/ MemoryTotal \/ MemoryCompile

SpecMemory == InitMemory /\ [][NextMemory]_vars

(***************************************************************************)
(* C39: the numeric constraints on the memory settings.                    *)
(***************************************************************************)
IsPowerOfTwo(x) == \E k \in 0..30 : x = 2 ^ k

IsMultipleOf(x, unit) == \E n \in 0..(x \div unit) : x = n * unit

\* The constraints on the memory settings of a build, wasm or asm.js.
memory_constraints(s, wasm) ==
  /\ s.TOTAL_MEMORY >= MB16
  /\ s.TOTAL_MEMORY >= s.TOTAL_STACK
  /\ IsMultipleOf(s.TOTAL_MEMORY, IF wasm THEN KB64 ELSE MB16)
  /\ s.BINARYEN_MEM_MAX = -1 \/ IsMultipleOf(s.BINARYEN_MEM_MAX, KB64)
  /\ s.SPLIT_MEMORY # 0 =>
       IsPowerOfTwo(s.SPLIT_MEMORY) /\ s.SPLIT_MEMORY >= s.TOTAL_STACK

\* C39: the front end is invoked only in a build whose memory settings
\* satisfy every constraint; a build whose settings break one has failed by
\* the time run() is past the checks, with nothing invoked.
C39_CompileOnlyWithValidMemory ==
  /\ build.spawned # <<>> => memory_constraints(bopt, build.BINARYEN)
  /\ (build.pc \notin {"split_memory", "total_memory"}
        /\ ~memory_constraints(bopt, build.BINARYEN))
       => build.pc = "failed" /\ build.spawned = <<>>

\* The front end was invoked in a wasm build whose TOTAL_MEMORY is a multiple
\* of 64 KB and not of 16 MB, with SPLIT_MEMORY unset.
C39_Witness ==
  /\ build.pc = "compiled" /\ build.spawned # <<>>
  /\ build.BINARYEN /\ bopt.TOTAL_MEMORY = MB16 + KB64

\* The front end was invoked in an asm.js build that splits its memory.
C39_WitnessSplit ==
  /\ build.pc = "compiled" /\ build.spawned # <<>>
  /\ bopt.SPLIT_MEMORY # 0

(***************************************************************************)
(* system_libs.calculate for every settings combination.                   *)
(***************************************************************************)
\* Every settings combination, with inputs that need libc, inputs that need
\* the GL library, and EMCC_FORCE_STDLIBS=1.
InitCalcAll ==
  /\ csettings \in CalcSettings
  /\ cenv \in {DefaultEnv,
               [DefaultEnv EXCEPT !.temp = << [defs |-> {}, undefs |-> {"glClear"}] >>],
               [DefaultEnv EXCEPT !.force = {<<"1">>}]}
  /\ calc = calc_start(<<>>, 1)
  /\ Idle("calc")

SpecCalcAll == InitCalcAll /\ [][NextCalc]_vars

(***************************************************************************)
(* C40: the asserts and registry lookups of calculate.                     *)
(***************************************************************************)
\* The three flags and the marker in the name that goes with each.
MarkerOfFlag ==
  ("-s USE_PTHREADS=1" :> "-mt") @@ ("-DLEGACY_GL_EMULATION=1" :> "-emu")
  @@ ("-DUSE_WEBGL2=1" :> "-webgl2")

\* The built library was built with a flag exactly when its name carries the
\* flag's marker.
flags_match_markers(name) ==
  \A f \in DOMAIN MarkerOfFlag :
    f \in calc.cache[name] <=> MarkerOfFlag[f] \in Range(name)

\* Nothing raised, every always-include name is registered, and so is every
\* name in a dependency list.
nothing_can_raise ==
  /\ calc.raised = "none"
  /\ malloc_decision(csettings).ok =>
       always_include(csettings) \subseteq DOMAIN system_libs_map(csettings)
  /\ \A i \in 1..Len(system_libs(csettings)) :
       Range(system_libs(csettings)[i].deps) \subseteq DOMAIN system_libs_map(csettings)

\* C40 (as stated): no assert and no registry lookup of calculate fails, and
\* every library is built with the threading, legacy-GL-emulation or WebGL2
\* flag exactly when its name carries '-mt', '-emu' or '-webgl2'.
C40_NoAssertFailsFlagsMatchMarkers ==
  /\ nothing_can_raise
  /\ \A name \in DOMAIN calc.cache : flags_match_markers(name)

\* C40 (amended): no assert and no registry lookup of calculate fails, and
\* the libraries whose builders take these flags from threading_flags,
\* legacy_gl_emulation_flags and gl_version_flags (libc and the GL library)
\* are built with each flag exactly when their name carries its marker.
C40_NoAssertFailsFlagsMatchMarkersOfLibcAndGl ==
  /\ nothing_can_raise
  /\ \A name \in DOMAIN calc.cache :
       name[1] \in {"libc", "libgl"} => flags_match_markers(name)

\* calculate returned after building libgl-mt-emu-webgl2 with the three flags
\* and libc-mt with the threading flag.
C40_Witness ==
  /\ calc.pc = "done"
  /\ \E name \in DOMAIN calc.cache :
       /\ name[1] = "libgl" /\ {"-mt", "-emu", "-webgl2"} \subseteq Range(name)
       /\ DOMAIN MarkerOfFlag \subseteq calc.cache[name]
  /\ \E name \in DOMAIN calc.cache :
       /\ name[1] = "libc" /\ "-mt" \in Range(name)
       /\ "-s USE_PTHREADS=1" \in calc.cache[name]
====
